---- MODULE Spec2Model ----
(***************************************************************************)
(* Model of bazaar_analysis: the recipe normalizer, repository and recipe  *)
(* client of crafting.py, the profitability evaluator of analysis.py and   *)
(* the fetch-recipes subcommand of cli.py.                                 *)
(*                                                                         *)
(* Five specifications share the variables: Spec runs from_hypixel_payload *)
(* on a payload, then to_payload and from_mapping; SpecScan runs the       *)
(* recursive container scan one generator step at a time; SpecAnalysis     *)
(* runs rank_recipes over a price snapshot; SpecFetch constructs a         *)
(* HypixelRecipeClient and fetches; SpecLoad runs from_mapping on a file   *)
(* of the canonical schema.                                                *)
(*                                                                         *)
(* Python objects are modelled as values over a heap.  A value is a record *)
(* [t, n, s]: t is the Python type, n the integer payload (an int, a bool  *)
(* as 0/1, or the heap identity of a dict or list) and s the characters of *)
(* a str.  A heap is a sequence of objects; the identity of an object      *)
(* (Python's id()) is its index in the heap.                               *)
(***************************************************************************)
EXTENDS Integers, Sequences, FiniteSets, TLC

VARIABLES
    heap,       \* the raw payload's object graph (dicts and lists by identity)
    data,       \* the value handed to from_hypixel_payload
    pc,         \* position of the running operation
    entries,    \* _parse_hypixel_payload: the entries being iterated
    idx,        \* _parse_hypixel_payload: index of the next entry
    recipes,    \* CraftRepository._recipes
    cur,        \* what the last loop iteration extracted from its entry
    exc,        \* name of the exception that ended the operation, "" if none
    canon,      \* heap of the payload built by to_payload (root at identity 1)
    reloaded,   \* recipes parsed back from canon by from_mapping
    stack,      \* _extract_ingredient_container_inner: the suspended generator frames
    seen,       \* _extract_ingredient_container: the identities already visited
    yielded,    \* the (product_id, amount) pairs the generator has yielded
    products,   \* BazaarAnalyzer.products
    min_profit,         \* rank_recipes: keyword argument
    min_popularity,     \* rank_recipes: keyword argument
    sort_by,            \* rank_recipes: keyword argument
    limit,              \* rank_recipes: keyword argument
    pos,        \* rank_recipes: index of the next recipe
    result,     \* rank_recipes: what evaluate_recipe returned for the last recipe
    evaluated,  \* rank_recipes: the results kept so far
    ranked,     \* what rank_recipes returned
    caller,         \* who constructs the HypixelRecipeClient: the command line or a library user
    api_url,        \* HypixelRecipeClient: the primary endpoint
    fallback_urls,  \* the fallback endpoints handed to the constructor, in order
    with_fallbacks, \* whether the constructor call carries the keyword fallback_urls
    answers,        \* the network: how each endpoint answers a request
    contacted,      \* the endpoints requested so far, in order
    used,           \* the endpoint whose payload fetch_raw returned, NoUrl if none
    exit_code,      \* exit status of the process, NoExit while it runs
    stderr          \* what the process wrote to standard error

normalizerVars == <<entries, idx, cur, canon, reloaded>>
scanVars == <<stack, seen, yielded>>
analysisVars ==
    <<products, min_profit, min_popularity, sort_by, limit, pos, result, evaluated, ranked>>

fetchVars ==
    <<caller, api_url, fallback_urls, with_fallbacks, answers, contacted, used, exit_code,
      stderr>>

vars == <<heap, data, pc, exc, recipes, normalizerVars, scanVars, analysisVars, fetchVars>>

-----------------------------------------------------------------------------
(* Python values *)

NoneV == [t |-> "None", n |-> 0, s |-> <<>>]
IntV(x) == [t |-> "int", n |-> x, s |-> <<>>]
BoolV(b) == [t |-> "bool", n |-> IF b THEN 1 ELSE 0, s |-> <<>>]
StrV(chars) == [t |-> "str", n |-> 0, s |-> chars]
Ref(id) == [t |-> "ref", n |-> id, s |-> <<>>]

KV(k, v) == [k |-> k, v |-> v]
DictObj(items) == [kind |-> "dict", items |-> items]
ListObj(vals) == [kind |-> "list", items |-> [j \in DOMAIN vals |-> KV("", vals[j])]]

Min(S) == CHOOSE x \in S : \A y \in S : x <= y

\* isinstance(v, Mapping)
IsMapping(h, v) == v.t = "ref" /\ h[v.n].kind = "dict"

\* isinstance(v, Sequence): lists and text
IsSequence(h, v) == v.t = "str" \/ (v.t = "ref" /\ h[v.n].kind = "list")

\* hasattr(v, "get"): what a call v.get(...) needs
HasGet(h, v) == v.t = "ref" /\ h[v.n].kind = "dict"

\* bool(v)
Truthy(h, v) ==
    CASE v.t = "None" -> FALSE
      [] v.t = "int" -> v.n /= 0
      [] v.t = "bool" -> v.n /= 0
      [] v.t = "str" -> v.s /= <<>>
      [] v.t = "ref" -> h[v.n].items /= <<>>

\* o.get(key) on dict object o
Get(o, key) ==
    LET at == {j \in DOMAIN o.items : o.items[j].k = key}
    IN  IF at = {} THEN NoneV ELSE o.items[Min(at)].v

\* a or b or ... : the first truthy operand, else the last one
OrChain(h, vals) ==
    LET T == {j \in DOMAIN vals : Truthy(h, vals[j])}
    IN  IF T = {} THEN vals[Len(vals)] ELSE vals[Min(T)]

-----------------------------------------------------------------------------
(* Text *)

IsSpace(c) == c = " "

RECURSIVE LStrip(_)
LStrip(s) == IF s /= <<>> /\ IsSpace(Head(s)) THEN LStrip(Tail(s)) ELSE s

RECURSIVE RStrip(_)
RStrip(s) ==
    IF s /= <<>> /\ IsSpace(s[Len(s)]) THEN RStrip(SubSeq(s, 1, Len(s) - 1)) ELSE s

\* str.strip()
Strip(s) == RStrip(LStrip(s))

Digits == <<"0", "1", "2", "3", "4", "5", "6", "7", "8", "9">>

IsDigit(c) == \E d \in DOMAIN Digits : Digits[d] = c

DigitVal(c) == (CHOOSE d \in DOMAIN Digits : Digits[d] = c) - 1

RECURSIVE DigitsVal(_)
DigitsVal(s) ==
    IF s = <<>> THEN 0 ELSE 10 * DigitsVal(SubSeq(s, 1, Len(s) - 1)) + DigitVal(s[Len(s)])

\* int() of text already stripped: an optional sign, then decimal digits; any other
\* text is a ValueError (the texts explored hold digits, signs, blanks and letters)
IntOfText(body) ==
    LET signed == body /= <<>> /\ Head(body) \in {"+", "-"}
        digs == IF signed THEN Tail(body) ELSE body
    IN  IF digs = <<>> \/ \E j \in DOMAIN digs : ~IsDigit(digs[j])
        THEN [exc |-> "ValueError", n |-> 0]
        ELSE [exc |-> "", n |-> IF Head(body) = "-" THEN 0 - DigitsVal(digs) ELSE DigitsVal(digs)]

\* int(value): [exc, n]
PyInt(value) ==
    CASE value.t = "int" -> [exc |-> "", n |-> value.n]
      [] value.t = "bool" -> [exc |-> "", n |-> value.n]
      [] value.t = "str" -> IntOfText(Strip(value.s))
      [] OTHER -> [exc |-> "TypeError", n |-> 0]

-----------------------------------------------------------------------------
(* CraftRepository helpers *)

\* value.strip() left out
_coerce_product_id_unstripped(value) == IF value.t = "str" THEN value.s ELSE <<>>

_coerce_product_id(value) == IF value.t = "str" THEN Strip(value.s) ELSE <<>>

\* the except clause of _coerce_int applied to the outcome r of int(value)
Handled(r, default) ==
    IF r.exc \in {"TypeError", "ValueError"} THEN [exc |-> "", n |-> default] ELSE r

\* the handler narrowed to `except ValueError`
_coerce_int_ValueErrorOnly(value, default) ==
    IF PyInt(value).exc = "ValueError" THEN [exc |-> "", n |-> default] ELSE PyInt(value)

_coerce_int(value, default) == Handled(PyInt(value), default)

-----------------------------------------------------------------------------
(* Key tables of crafting.py, in the order the code probes them *)

OutputCandidates == <<"output", "result", "output_item", "outputItem">>
OutputIdKeys == <<"product_id", "item_id", "itemId", "id", "item", "name">>
OutputAmountKeys == <<"output_amount", "amount", "count", "qty">>
TopIdKeys == <<"output_item_id", "outputItemId", "name", "id">>
TopAmountKeys == <<"output_amount", "amount", "count", "quantity">>
ContainerKeys ==
    <<"ingredients", "input", "inputs", "items", "materials", "slots", "recipe", "components">>
KeyIdKeys == <<"product_id", "item_id", "itemId", "id", "item", "name">>
KeyAmountKeys == <<"amount", "count", "qty">>
IngredientIdKeys == <<"product_id", "item_id", "itemId", "id", "item", "name">>
IngredientAmountKeys == <<"amount", "count", "qty", "quantity", "value">>

\* <<o.get(k1), o.get(k2), ...>>
Gets(o, keys) == [j \in DOMAIN keys |-> Get(o, keys[j])]

-----------------------------------------------------------------------------
(* Output extraction.  Every result is [exc, product_id, amount]; amount is *)
(* the outcome [exc, n] of _coerce_int until it is unpacked.                *)

Extracted(product_id, amount) ==
    [exc |-> amount.exc, product_id |-> product_id, amount |-> amount.n]

_decode_output(h, candidate) ==
    IF ~IsMapping(h, candidate)
    THEN IF candidate.t = "str" /\ candidate.s /= <<>>
         THEN [exc |-> "", product_id |-> candidate.s, amount |-> 1]
         ELSE [exc |-> "", product_id |-> <<>>, amount |-> 1]
    ELSE Extracted(
            _coerce_product_id(OrChain(h, Gets(h[candidate.n], OutputIdKeys))),
            _coerce_int(OrChain(h, Gets(h[candidate.n], OutputAmountKeys) \o <<IntV(1)>>), 1))

\* the loop without its break: every candidate is decoded and the last one stands
RECURSIVE OutputLoopNoBreak(_, _, _)
OutputLoopNoBreak(h, cands, j) ==
    IF _decode_output(h, cands[j]).exc /= "" \/ j = Len(cands)
    THEN _decode_output(h, cands[j])
    ELSE OutputLoopNoBreak(h, cands, j + 1)

\* for candidate in output_candidates: d is its decode; break on a non-empty product_id
RECURSIVE OutputLoop(_, _, _)
OutputBreak(h, cands, j, d) ==
    IF d.exc /= "" \/ d.product_id /= <<>> \/ j = Len(cands)
    THEN d
    ELSE OutputLoop(h, cands, j + 1)

OutputLoop(h, cands, j) == OutputBreak(h, cands, j, _decode_output(h, cands[j]))

\* the top-level fallback, given what the loop left in (product_id, output_amount)
TopLevelOutput(found, top_id, top_amount) ==
    IF top_id = <<>>
    THEN [exc |-> "", product_id |-> <<>>, amount |-> found.amount]
    ELSE Extracted(top_id, top_amount)

OutputFallback(h, e, found) ==
    IF found.exc /= "" \/ found.product_id /= <<>>
    THEN found
    ELSE TopLevelOutput(found,
            _coerce_product_id(OrChain(h, Gets(e, TopIdKeys))),
            _coerce_int(OrChain(h, Gets(e, TopAmountKeys) \o <<IntV(1)>>), 1))

\* [exc, product_id, amount]
_extract_output(h, entry) ==
    OutputFallback(h, h[entry.n], OutputLoop(h, Gets(h[entry.n], OutputCandidates), 1))

-----------------------------------------------------------------------------
(* Ingredient extraction: the recursive container scan *)

NoPairs(exception, visited) == [exc |-> exception, pairs |-> <<>>, seen |-> visited]

Pair(product_id, amount) == [product_id |-> product_id, amount |-> amount]

\* a mapping tested as itself an ingredient: [exc, product_id, amount]
AsIngredient(h, o) ==
    Extracted(_coerce_product_id(OrChain(h, Gets(o, IngredientIdKeys))),
              _coerce_int(OrChain(h, Gets(o, IngredientAmountKeys)), 0))

\* the identity test `if obj_id in seen: return` left out
AlreadySeenNever(obj_id, visited) == FALSE

\* obj_id in seen
AlreadySeen(obj_id, visited) == obj_id \in visited

\* the generator run to exhaustion: [exc, pairs yielded in order, seen afterwards]
RECURSIVE _extract_ingredient_container_inner(_, _, _)
RECURSIVE VisitValues(_, _, _, _)

\* the elements after items[j], whose own outcome is r
VisitRest(h, items, j, r, rest) ==
    [exc |-> rest.exc, pairs |-> r.pairs \o rest.pairs, seen |-> rest.seen]

VisitFrom(h, items, j, r) ==
    IF r.exc /= "" THEN r ELSE VisitRest(h, items, j, r, VisitValues(h, items, j + 1, r.seen))

\* for value in container.values() / for value in container: yield from inner(value, seen)
VisitValues(h, items, j, visited) ==
    IF j > Len(items)
    THEN NoPairs("", visited)
    ELSE VisitFrom(h, items, j, _extract_ingredient_container_inner(h, items[j].v, visited))

\* a mapping just added to seen; ing is the mapping tested as an ingredient
VisitMapping(h, o, visited, ing) ==
    IF ing.exc /= ""
    THEN NoPairs(ing.exc, visited)
    ELSE IF ing.product_id /= <<>> /\ ing.amount > 0
    THEN [exc |-> "", pairs |-> <<Pair(ing.product_id, ing.amount)>>, seen |-> visited]
    ELSE VisitValues(h, o.items, 1, visited)

_extract_ingredient_container_inner(h, container, visited) ==
    IF ~(IsMapping(h, container) \/ IsSequence(h, container)) \/ container.t = "str"
    THEN NoPairs("", visited)
    ELSE IF AlreadySeen(container.n, visited)
    THEN NoPairs("", visited)
    ELSE IF IsMapping(h, container)
    THEN VisitMapping(h, h[container.n], visited \cup {container.n},
                      AsIngredient(h, h[container.n]))
    ELSE VisitValues(h, h[container.n].items, 1, visited \cup {container.n})

_extract_ingredient_container(h, container) ==
    _extract_ingredient_container_inner(h, container, {})

-----------------------------------------------------------------------------
(* Ingredient extraction: merging, and the key/pattern overlay *)

\* ingredient_amounts.get(product_id, 0)
AmountOf(amounts, product_id) ==
    LET at == {j \in DOMAIN amounts : amounts[j].product_id = product_id}
    IN  IF at = {} THEN 0 ELSE amounts[Min(at)].amount

\* ingredient_amounts[product_id] = value, the dict keeping first-insertion order
SetAmount(amounts, product_id, value) ==
    IF \E j \in DOMAIN amounts : amounts[j].product_id = product_id
    THEN [j \in DOMAIN amounts |->
            IF amounts[j].product_id = product_id THEN Pair(product_id, value) ELSE amounts[j]]
    ELSE Append(amounts, Pair(product_id, value))

\* ingredient_amounts[product_id] = amount: the sum forgotten
AddAmountOverwrite(amounts, product_id, amount) == SetAmount(amounts, product_id, amount)

\* ingredient_amounts[product_id] = ingredient_amounts.get(product_id, 0) + amount
AddAmount(amounts, product_id, amount) ==
    SetAmount(amounts, product_id, AmountOf(amounts, product_id) + amount)

\* for product_id, amount in pairs: skip the invalid ones, add the others
RECURSIVE MergePairs(_, _)
MergePairs(amounts, pairs) ==
    IF pairs = <<>>
    THEN amounts
    ELSE IF Head(pairs).product_id = <<>> \/ Head(pairs).amount <= 0
    THEN MergePairs(amounts, Tail(pairs))
    ELSE MergePairs(AddAmount(amounts, Head(pairs).product_id, Head(pairs).amount),
                    Tail(pairs))

\* for container in containers: [exc, amounts]; r is what containers[j] yielded
RECURSIVE ScanContainers(_, _, _, _)
ScanMerge(h, containers, j, amounts, r) ==
    IF r.exc /= ""
    THEN [exc |-> r.exc, amounts |-> amounts]
    ELSE ScanContainers(h, containers, j + 1, MergePairs(amounts, r.pairs))

ScanContainers(h, containers, j, amounts) ==
    IF j > Len(containers)
    THEN [exc |-> "", amounts |-> amounts]
    ELSE IF containers[j] = NoneV
    THEN ScanContainers(h, containers, j + 1, amounts)
    ELSE ScanMerge(h, containers, j, amounts,
                   _extract_ingredient_container(h, containers[j]))

\* Counter.update(ch for ch in row if ch.strip())
RECURSIVE CountChars(_, _)
CountChars(counts, row) ==
    IF row = <<>>
    THEN counts
    ELSE IF Strip(<<Head(row)>>) = <<>>
    THEN CountChars(counts, Tail(row))
    ELSE IF Head(row) \in DOMAIN counts
    THEN CountChars([counts EXCEPT ![Head(row)] = @ + 1], Tail(row))
    ELSE CountChars(counts @@ (Head(row) :> 1), Tail(row))

\* the elements a for loop over a Sequence value visits
Elements(h, v) ==
    IF v.t = "str"
    THEN [j \in DOMAIN v.s |-> StrV(<<v.s[j]>>)]
    ELSE [j \in DOMAIN h[v.n].items |-> h[v.n].items[j].v]

\* for row in pattern: if isinstance(row, str): char_counts.update(...)
RECURSIVE CountRows(_, _)
CountRows(counts, rows) ==
    IF rows = <<>>
    THEN counts
    ELSE IF Head(rows).t = "str"
    THEN CountRows(CountChars(counts, Head(rows).s), Tail(rows))
    ELSE CountRows(counts, Tail(rows))

\* ingredient_amounts[product_id] = total_amount: the overlay replacing the scan's total
OverlayAddReplacing(amounts, product_id, total_amount) ==
    SetAmount(amounts, product_id, total_amount)

\* ingredient_amounts[product_id] = ingredient_amounts.get(product_id, 0) + total_amount
OverlayAdd(amounts, product_id, total_amount) ==
    SetAmount(amounts, product_id, AmountOf(amounts, product_id) + total_amount)

\* a key descriptor resolved: [exc, product_id, amount]
KeyIngredient(h, o) ==
    Extracted(_coerce_product_id(OrChain(h, Gets(o, KeyIdKeys))),
              _coerce_int(OrChain(h, Gets(o, KeyAmountKeys)), 0))

\* for symbol, ingredient in key.items(): [exc, amounts]; ing is key_items[j] resolved
RECURSIVE OverlayLoop(_, _, _, _, _)
OverlaySymbol(h, key_items, j, char_counts, amounts, ing) ==
    IF ing.exc /= ""
    THEN [exc |-> ing.exc, amounts |-> amounts]
    ELSE IF ing.product_id /= <<>> /\ ing.amount > 0
    THEN OverlayLoop(h, key_items, j + 1, char_counts,
                     OverlayAdd(amounts, ing.product_id,
                                ing.amount * char_counts[key_items[j].k]))
    ELSE OverlayLoop(h, key_items, j + 1, char_counts, amounts)

OverlayLoop(h, key_items, j, char_counts, amounts) ==
    IF j > Len(key_items)
    THEN [exc |-> "", amounts |-> amounts]
    ELSE IF key_items[j].k = "" \/ key_items[j].k \notin DOMAIN char_counts
            \/ ~IsMapping(h, key_items[j].v)
    THEN OverlayLoop(h, key_items, j + 1, char_counts, amounts)
    ELSE IF ~HasGet(h, key_items[j].v)
    THEN [exc |-> "AttributeError", amounts |-> amounts]
    ELSE OverlaySymbol(h, key_items, j, char_counts, amounts,
                       KeyIngredient(h, h[key_items[j].v.n]))

Ingredients(scan, overlay) ==
    [exc |-> overlay.exc, scanned |-> scan.amounts, ingredients |-> overlay.amounts]

\* the part of _extract_ingredients after the container loop, whose outcome is scan
Overlay(h, e, scan) ==
    IF scan.exc = "" /\ IsMapping(h, Get(e, "key")) /\ IsSequence(h, Get(e, "pattern"))
    THEN Ingredients(scan,
            OverlayLoop(h, h[Get(e, "key").n].items, 1,
                        CountRows(<<>>, Elements(h, Get(e, "pattern"))), scan.amounts))
    ELSE Ingredients(scan, scan)

\* [exc, scanned: ingredient_amounts after the container loop, ingredients: the result]
_extract_ingredients(h, entry) ==
    Overlay(h, h[entry.n], ScanContainers(h, Gets(h[entry.n], ContainerKeys), 1, <<>>))

-----------------------------------------------------------------------------
(* _parse_hypixel_payload: one iteration of the loop over the entries *)

Recipe(product_id, output_amount, ingredients) ==
    [product_id |-> product_id, output_amount |-> output_amount, ingredients |-> ingredients]

Outcome(stage, exception, product_id, output_amount, scanned, ingredients) ==
    [stage |-> stage, exc |-> exception, product_id |-> product_id,
     output_amount |-> output_amount, scanned |-> scanned, ingredients |-> ingredients]

\* the guard `if not ingredients: continue` left out
KeepsEntryAnyIngredients(ingredients) == TRUE

\* the guard on the merged ingredients of an entry
KeepsEntry(ingredients) == ingredients /= <<>>

\* lines 121-125: ing is _extract_ingredients(entry)
EntryIngredients(out, ing) ==
    IF ing.exc /= ""
    THEN Outcome("raised", ing.exc, out.product_id, out.amount, <<>>, <<>>)
    ELSE Outcome(IF KeepsEntry(ing.ingredients) THEN "emitted" ELSE "no_ingredients",
                 "", out.product_id, out.amount, ing.scanned, ing.ingredients)

\* lines 117-125: out is _extract_output(entry)
EntryOutput(h, entry, out) ==
    IF out.exc /= ""
    THEN Outcome("raised", out.exc, <<>>, 0, <<>>, <<>>)
    ELSE IF out.product_id = <<>>
    THEN Outcome("no_output", "", <<>>, out.amount, <<>>, <<>>)
    ELSE EntryIngredients(out, _extract_ingredients(h, entry))

\* stage: not_mapping | no_output | no_ingredients | emitted | raised
ParseEntry(h, entry) ==
    IF ~IsMapping(h, entry)
    THEN Outcome("not_mapping", "", <<>>, 0, <<>>, <<>>)
    ELSE IF ~HasGet(h, entry)
    THEN Outcome("raised", "AttributeError", <<>>, 0, <<>>, <<>>)
    ELSE EntryOutput(h, entry, _extract_output(h, entry))

NoCur == [entry |-> NoneV] @@ Outcome("none", "", <<>>, 0, <<>>, <<>>)

-----------------------------------------------------------------------------
(* The canonical schema: to_payload and _parse_payload *)

IngredientObjs(ingredients) ==
    [j \in DOMAIN ingredients |->
        DictObj(<<KV("product_id", StrV(ingredients[j].product_id)),
                  KV("amount", IntV(ingredients[j].amount))>>)]

\* the objects of one recipe, allocated at identities base + 1 ..
RecipeObjs(r, base) ==
    <<DictObj(<<KV("product_id", StrV(r.product_id)),
                KV("output_amount", IntV(r.output_amount)),
                KV("ingredients", Ref(base + 2))>>),
      ListObj([j \in DOMAIN r.ingredients |-> Ref(base + 2 + j)])>>
    \o IngredientObjs(r.ingredients)

RECURSIVE RecipesObjs(_, _, _)
RecipesObjs(rs, j, base) ==
    IF j > Len(rs)
    THEN [objs |-> <<>>, roots |-> <<>>]
    ELSE [objs |-> RecipeObjs(rs[j], base)
                   \o RecipesObjs(rs, j + 1, base + 2 + Len(rs[j].ingredients)).objs,
          roots |-> <<Ref(base + 1)>>
                    \o RecipesObjs(rs, j + 1, base + 2 + Len(rs[j].ingredients)).roots]

\* the heap of {"recipes": [...]}: the dict at identity 1, the list at identity 2
to_payload(rs) ==
    <<DictObj(<<KV("recipes", Ref(2))>>), ListObj(RecipesObjs(rs, 1, 2).roots)>>
    \o RecipesObjs(rs, 1, 2).objs

HasKey(o, key) == \E j \in DOMAIN o.items : o.items[j].k = key

\* o.get(key, default)
GetDefault(o, key, default) == IF HasKey(o, key) THEN Get(o, key) ELSE default

RECURSIVE NatChars(_)
NatChars(x) ==
    IF x < 10 THEN <<Digits[x + 1]>> ELSE NatChars(x \div 10) \o <<Digits[(x % 10) + 1]>>

\* str(v); the repr of a dict or a list is cut to its brackets
PyStr(h, v) ==
    CASE v.t = "str" -> v.s
      [] v.t = "None" -> <<"N", "o", "n", "e">>
      [] v.t = "bool" -> IF v.n = 1 THEN <<"T", "r", "u", "e">> ELSE <<"F", "a", "l", "s", "e">>
      [] v.t = "int" -> IF v.n < 0 THEN <<"-">> \o NatChars(0 - v.n) ELSE NatChars(v.n)
      [] v.t = "ref" -> IF h[v.n].kind = "dict" THEN <<"{", "}">> ELSE <<"[", "]">>

\* what `for x in v` visits: [exc, elems]; a dict yields its keys, each some str
Iterate(h, v) ==
    CASE v.t = "str" -> [exc |-> "", elems |-> [j \in DOMAIN v.s |-> StrV(<<v.s[j]>>)]]
      [] v.t = "ref" /\ h[v.n].kind = "list" ->
            [exc |-> "", elems |-> [j \in DOMAIN h[v.n].items |-> h[v.n].items[j].v]]
      [] v.t = "ref" /\ h[v.n].kind = "dict" ->
            [exc |-> "", elems |-> [j \in DOMAIN h[v.n].items |-> StrV(<<"k">>)]]
      [] OTHER -> [exc |-> "TypeError", elems |-> <<>>]

\* for x in o.get(key, []): [exc, elems]
IterateField(h, o, key) ==
    IF HasKey(o, key) THEN Iterate(h, Get(o, key)) ELSE [exc |-> "", elems |-> <<>>]

\* for ingredient in entry.get("ingredients", []): [exc, ingredients]
RECURSIVE ParseIngredients(_, _, _, _)
ParseIngredient(h, elems, j, acc, ingredient_id, amount, n) ==
    IF ~Truthy(h, ingredient_id) \/ amount = NoneV
    THEN ParseIngredients(h, elems, j + 1, acc)
    ELSE IF n.exc /= ""
    THEN [exc |-> n.exc, ingredients |-> acc]
    ELSE ParseIngredients(h, elems, j + 1, Append(acc, Pair(PyStr(h, ingredient_id), n.n)))

ParseIngredients(h, elems, j, acc) ==
    IF j > Len(elems)
    THEN [exc |-> "", ingredients |-> acc]
    ELSE IF ~HasGet(h, elems[j])
    THEN [exc |-> "AttributeError", ingredients |-> acc]
    ELSE ParseIngredient(h, elems, j, acc,
                         Get(h[elems[j].n], "product_id"),
                         Get(h[elems[j].n], "amount"),
                         PyInt(Get(h[elems[j].n], "amount")))

\* product_id = str(entry.get("product_id")).strip(): the identifier trimmed on load
LoadedProductIdStripped(h, o) == Strip(PyStr(h, Get(o, "product_id")))

\* product_id = str(entry.get("product_id"))
LoadedProductId(h, o) == PyStr(h, Get(o, "product_id"))

\* for entry in data.get("recipes", []): [exc, recipes]
RECURSIVE ParseRecipes(_, _, _, _)
ParseRecipeIngredients(h, elems, j, acc, product_id, output_amount, ings) ==
    IF ings.exc /= ""
    THEN [exc |-> ings.exc, recipes |-> acc]
    ELSE IF ings.ingredients /= <<>>
    THEN ParseRecipes(h, elems, j + 1,
                      Append(acc, Recipe(product_id, output_amount.n, ings.ingredients)))
    ELSE ParseRecipes(h, elems, j + 1, acc)

ParseRecipeFields(h, elems, j, acc, product_id, output_amount, raw) ==
    IF product_id = <<>>
    THEN ParseRecipes(h, elems, j + 1, acc)
    ELSE IF output_amount.exc /= ""
    THEN [exc |-> output_amount.exc, recipes |-> acc]
    ELSE IF raw.exc /= ""
    THEN [exc |-> raw.exc, recipes |-> acc]
    ELSE ParseRecipeIngredients(h, elems, j, acc, product_id, output_amount,
                                ParseIngredients(h, raw.elems, 1, <<>>))

ParseRecipes(h, elems, j, acc) ==
    IF j > Len(elems)
    THEN [exc |-> "", recipes |-> acc]
    ELSE IF ~HasGet(h, elems[j])
    THEN [exc |-> "AttributeError", recipes |-> acc]
    ELSE ParseRecipeFields(h, elems, j, acc,
                           LoadedProductId(h, h[elems[j].n]),
                           PyInt(GetDefault(h[elems[j].n], "output_amount", IntV(1))),
                           IterateField(h, h[elems[j].n], "ingredients"))

ParseRecipeList(h, raw) ==
    IF raw.exc /= ""
    THEN [exc |-> raw.exc, recipes |-> <<>>]
    ELSE ParseRecipes(h, raw.elems, 1, <<>>)

\* [exc, recipes]
_parse_payload(h, root) ==
    IF ~HasGet(h, root)
    THEN [exc |-> "AttributeError", recipes |-> <<>>]
    ELSE ParseRecipeList(h, IterateField(h, h[root.n], "recipes"))

-----------------------------------------------------------------------------
(* analysis.py: BazaarAnalyzer.  Prices are whole coins; a quotient of two   *)
(* amounts of coins is kept exact, as a fraction in lowest terms.            *)

BazaarProduct(product_id, sell_price, buy_price, sell_volume, buy_volume) ==
    [product_id |-> product_id, sell_price |-> sell_price, buy_price |-> buy_price,
     sell_volume |-> sell_volume, buy_volume |-> buy_volume]

\* the buy volume forgotten
popularity_sell_volume_only(product) == product.sell_volume

popularity(product) == product.sell_volume + product.buy_volume

Abs(x) == IF x < 0 THEN 0 - x ELSE x

RECURSIVE GCD(_, _)
GCD(a, b) == IF b = 0 THEN a ELSE GCD(b, a % b)

\* num / den, den > 0
Ratio(num, den) == [num |-> num \div GCD(Abs(num), den), den |-> den \div GCD(Abs(num), den)]

\* what evaluate_recipe returns: None, or a CraftProfit
NoResult ==
    [none |-> TRUE, product_id |-> <<>>, output_amount |-> 0, total_sell_price |-> 0,
     total_buy_cost |-> 0, profit |-> 0, roi |-> Ratio(0, 1), popularity |-> 0]

CraftProfit(product_id, output_amount, total_sell_price, total_buy_cost, lowest) ==
    [none |-> FALSE, product_id |-> product_id, output_amount |-> output_amount,
     total_sell_price |-> total_sell_price, total_buy_cost |-> total_buy_cost,
     profit |-> total_sell_price - total_buy_cost,
     roi |-> IF total_buy_cost <= 0
             THEN Ratio(0, 1)
             ELSE Ratio(total_sell_price - total_buy_cost, total_buy_cost),
     popularity |-> lowest]

\* for ingredient in recipe.ingredients: [missing, total_cost, popularity]
RECURSIVE CostLoop(_, _, _, _, _)

\* `return None` replaced by `continue`: an ingredient without a price is passed over
MissingIngredientSkipped(ps, ingredients, j, total_cost, lowest) ==
    CostLoop(ps, ingredients, j + 1, total_cost, lowest)

\* if not ingredient_product: return None
MissingIngredient(ps, ingredients, j, total_cost, lowest) ==
    [missing |-> TRUE, total_cost |-> total_cost, popularity |-> lowest]

CostLoop(ps, ingredients, j, total_cost, lowest) ==
    IF j > Len(ingredients)
    THEN [missing |-> FALSE, total_cost |-> total_cost, popularity |-> lowest]
    ELSE IF ingredients[j].product_id \notin DOMAIN ps
    THEN MissingIngredient(ps, ingredients, j, total_cost, lowest)
    ELSE CostLoop(ps, ingredients, j + 1,
                  total_cost + ps[ingredients[j].product_id].buy_price * ingredients[j].amount,
                  Min({lowest, popularity(ps[ingredients[j].product_id])}))

\* lines 56-71: cost is what the loop over the ingredients left
Evaluated(product, recipe, cost) ==
    IF cost.missing
    THEN NoResult
    ELSE CraftProfit(recipe.product_id, recipe.output_amount,
                     product.sell_price * recipe.output_amount,
                     cost.total_cost, cost.popularity)

evaluate_recipe(ps, recipe) ==
    IF recipe.product_id \notin DOMAIN ps
    THEN NoResult
    ELSE Evaluated(ps[recipe.product_id], recipe,
                   CostLoop(ps, recipe.ingredients, 1, 0, popularity(ps[recipe.product_id])))

SortKeys == {"profit", "roi", "popularity"}

\* key(a) >= key(b) for the key that sort_by selects; profit when it selects none
KeyAtLeast(a, b, by) ==
    CASE by = "roi" -> a.roi.num * b.roi.den >= b.roi.num * a.roi.den
      [] by = "popularity" -> a.popularity >= b.popularity
      [] OTHER -> a.profit >= b.profit

\* item put after the items of sorted whose key is at least its own
RECURSIVE Inserted(_, _, _)
Inserted(sorted, item, by) ==
    IF sorted /= <<>> /\ KeyAtLeast(Head(sorted), item, by)
    THEN <<Head(sorted)>> \o Inserted(Tail(sorted), item, by)
    ELSE <<item>> \o sorted

\* evaluated.sort(key=key, reverse=True): descending, equal keys in their first order
RECURSIVE Sorted(_, _, _)
Sorted(items, by, sorted) ==
    IF items = <<>> THEN sorted ELSE Sorted(Tail(items), by, Inserted(sorted, Head(items), by))

\* items[:n]
Slice(items, n) ==
    IF n < 0
    THEN SubSeq(items, 1, Len(items) + n)
    ELSE SubSeq(items, 1, Min({n, Len(items)}))

\* lines 102-104
Limited(items, lim) == IF lim = NoneV THEN items ELSE Slice(items, lim.n)

-----------------------------------------------------------------------------
(* Bounds of the payloads explored *)

MaxEntries == 2     \* entries of a batch payload
MaxAmount == 2      \* largest integer written in an amount field
MaxRows == 2        \* rows of a pattern
NObj == 2           \* containers of a generated object graph
MaxRecipes == 2     \* recipes handed to rank_recipes
MaxFallbacks == 2   \* fallback endpoints of a recipe client

-----------------------------------------------------------------------------
(* Payload construction: the inputs explored, not code of the repository.    *)
(* A block is a sequence of objects whose references                         *)
(* are local (1 is the block's first object); a member of a payload is a    *)
(* block, or an atom when it has no objects.                                *)

SeqUpTo(S, n) == UNION {[1..k -> S] : k \in 0..n}

Leaf(id, amount) == DictObj(<<KV("id", StrV(id)), KV("amount", IntV(amount))>>)

ShiftValue(v, d) == IF v.t = "ref" THEN Ref(v.n + d) ELSE v

Shift(objs, d) ==
    [j \in DOMAIN objs |->
        [kind |-> objs[j].kind,
         items |-> [m \in DOMAIN objs[j].items |->
                      KV(objs[j].items[m].k, ShiftValue(objs[j].items[m].v, d))]]]

Atom(v) == [atom |-> v, objs |-> <<>>]
Block(objs) == [atom |-> NoneV, objs |-> objs]

RECURSIVE Layout(_, _, _)
Layout(members, j, base) ==
    IF j > Len(members)
    THEN [objs |-> <<>>, roots |-> <<>>]
    ELSE LET m == members[j]
             rest == Layout(members, j + 1, base + Len(m.objs))
         IN  [objs |-> Shift(m.objs, base) \o rest.objs,
              roots |-> <<IF m.objs = <<>> THEN m.atom ELSE Ref(base + 1)>> \o rest.roots]

RootKeys == <<"r1", "r2", "r3", "r4">>

\* a payload that is a list of the members
ListPayload(members) ==
    LET all == Layout(members, 1, 1)
    IN  [heap |-> <<ListObj(all.roots)>> \o all.objs, data |-> Ref(1)]

\* a payload that is a mapping whose values are the members
DictPayload(members) ==
    LET all == Layout(members, 1, 1)
    IN  [heap |-> <<DictObj([j \in DOMAIN all.roots |-> KV(RootKeys[j], all.roots[j])])>>
                  \o all.objs,
         data |-> Ref(1)]

\* a payload that is no container of entries
AtomPayload(v) == [heap |-> <<>>, data |-> v]

-----------------------------------------------------------------------------
(* Entries that vary the output fields; object 2 is the entry's ingredient *)

IdVals ==
    {StrV(<<"A">>), StrV(<<" ", "A", " ">>), StrV(<<" ">>), StrV(<<>>), IntV(7), NoneV,
     BoolV(TRUE)}

AmountVals ==
    {IntV(a) : a \in -1..MaxAmount}
    \cup {StrV(<<"2">>), StrV(<<" ", "3", " ">>), StrV(<<"-", "1">>), StrV(<<"0">>),
          StrV(<<"x">>), StrV(<<>>), NoneV, BoolV(TRUE), BoolV(FALSE), Ref(2)}

AmountKeyNames == {"output_amount", "amount", "count", "qty", "quantity", "value"}

IdKeyNames == {"product_id", "item_id", "itemId", "id", "item", "name", "output_item_id"}

\* one mapping candidate under "output", varying one id field or one amount field
DecodeEntries ==
    {<<DictObj(<<KV("output", Ref(3)), KV("ingredients", Ref(2))>>),
       Leaf(<<"I">>, 1),
       c>> :
        c \in {DictObj(<<KV(ik, iv), KV("amount", IntV(2))>>) : ik \in IdKeyNames, iv \in IdVals}
              \cup {DictObj(<<KV("id", StrV(<<"A">>)), KV(ak, av)>>) :
                        ak \in AmountKeyNames, av \in AmountVals}}

CandidatePairs ==
    {<<a, b>> \in (DOMAIN OutputCandidates) \X (DOMAIN OutputCandidates) : a < b}

FirstCandidates ==
    {[v |-> StrV(<<"A">>), o |-> ListObj(<<>>)],
     [v |-> StrV(<<" ", "A">>), o |-> ListObj(<<>>)],
     [v |-> StrV(<<>>), o |-> ListObj(<<>>)],
     [v |-> IntV(5), o |-> ListObj(<<>>)],
     [v |-> NoneV, o |-> ListObj(<<>>)],
     [v |-> Ref(3), o |-> DictObj(<<KV("id", StrV(<<"C">>)), KV("amount", IntV(2))>>)],
     [v |-> Ref(3), o |-> DictObj(<<KV("name", StrV(<<" ">>)), KV("amount", IntV(3))>>)],
     [v |-> Ref(3), o |-> DictObj(<<KV("amount", IntV(3))>>)]}

SecondCandidates == {StrV(<<"B">>), StrV(<<>>), Ref(4)}

TopPairs == {<<>>, <<KV("name", StrV(<<"T">>)), KV("amount", IntV(4))>>}

\* two structured candidates, with or without top-level fields
PrecedenceEntries ==
    {<<DictObj(<<KV(OutputCandidates[ks[1]], c1.v), KV(OutputCandidates[ks[2]], c2)>>
               \o top \o <<KV("ingredients", Ref(2))>>),
       Leaf(<<"I">>, 1),
       c1.o,
       DictObj(<<KV("id", StrV(<<"D">>)), KV("count", IntV(3))>>)>> :
        ks \in CandidatePairs, c1 \in FirstCandidates, c2 \in SecondCandidates, top \in TopPairs}

TopIdFields ==
    {<<>>}
    \cup {<<KV(k, v)>> : k \in {TopIdKeys[j] : j \in DOMAIN TopIdKeys} \cup {"product_id", "item"},
                         v \in {StrV(<<"T">>), StrV(<<" ">>), IntV(5)}}
    \cup {<<KV(TopIdKeys[ks[1]], v), KV(TopIdKeys[ks[2]], StrV(<<"U">>))>> :
            ks \in {p \in (DOMAIN TopIdKeys) \X (DOMAIN TopIdKeys) : p[1] < p[2]},
            v \in {StrV(<<"T">>), StrV(<<" ">>), IntV(5), StrV(<<>>)}}

TopAmountFields ==
    {<<>>, <<KV("amount", StrV(<<"x">>))>>, <<KV("amount", IntV(0))>>,
     <<KV("amount", IntV(0 - MaxAmount))>>}
    \cup {<<KV(k, IntV(4))>> : k \in {TopAmountKeys[j] : j \in DOMAIN TopAmountKeys} \cup {"qty"}}

\* no structured candidate yields an identifier: the top-level fallback
FallbackEntries ==
    {<<DictObj(cand \o tid \o tam \o <<KV("ingredients", Ref(2))>>),
       Leaf(<<"I">>, 1),
       DictObj(<<KV("amount", IntV(5))>>)>> :
        cand \in {<<>>, <<KV("outputItem", Ref(3))>>},
        tid \in TopIdFields, tam \in TopAmountFields}

-----------------------------------------------------------------------------
(* Entries that vary the ingredient containers *)

ContainerKeyNames == {ContainerKeys[j] : j \in DOMAIN ContainerKeys} \cup {"extras"}

\* one or two containers, each a single ingredient mapping
ContainerKeyEntries ==
    {<<DictObj(<<KV("output", StrV(<<"O">>)), KV(k, Ref(2))>>), Leaf(<<"A">>, 5)>> :
        k \in ContainerKeyNames}
    \cup
    {<<DictObj(<<KV("output", StrV(<<"O">>)), KV(ContainerKeys[ks[1]], Ref(2)),
                 KV(ContainerKeys[ks[2]], Ref(3))>>),
       Leaf(<<"A">>, 5),
       Leaf(id, 3)>> :
        ks \in {p \in (DOMAIN ContainerKeys) \X (DOMAIN ContainerKeys) : p[1] < p[2]},
        id \in {<<"A">>, <<"B">>}}

\* the shapes of a nested container whose children are among refs
NestShapes(refs) ==
    {Leaf(<<"A">>, 1), Leaf(<<"B">>, MaxAmount)}
    \cup {ListObj(<<r, r>>) : r \in refs}
    \cup {DictObj(<<KV("x", r), KV("id", StrV(<<"A">>))>>) : r \in refs}
    \cup {DictObj(<<KV("id", StrV(<<"B">>)), KV("qty", IntV(1)), KV("x", r)>>) : r \in refs}

NestRefs == {Ref(1 + j) : j \in 1..NObj}

\* "input" and "items" over an arbitrary graph of NObj nested containers
NestedEntries ==
    {<<DictObj(<<KV("output", StrV(<<"O">>)), KV("input", Ref(2))>> \o second)>> \o nodes :
        second \in {<<>>} \cup {<<KV("items", r)>> : r \in NestRefs},
        nodes \in [1..NObj -> NestShapes(NestRefs)]}

IngredientAmountKeyNames ==
    {IngredientAmountKeys[j] : j \in DOMAIN IngredientAmountKeys} \cup {"output_amount"}

\* one ingredient mapping in a list, varying one id field or one or two amount fields
IngredientEntries ==
    {<<DictObj(<<KV("output", StrV(<<"O">>)), KV("ingredients", Ref(3))>>),
       Leaf(<<"I">>, 1),
       ListObj(<<Ref(4)>>),
       m>> :
        m \in {DictObj(<<KV(ik, iv), KV("amount", IntV(2))>>) : ik \in IdKeyNames, iv \in IdVals}
              \cup {DictObj(<<KV("id", StrV(<<"A">>)), KV(ak, av)>>) :
                        ak \in IngredientAmountKeyNames, av \in AmountVals}
              \cup {DictObj(<<KV("id", StrV(<<"A">>)), KV("amount", av), KV("count", IntV(3))>>) :
                        av \in AmountVals}}

-----------------------------------------------------------------------------
(* Shaped entries: object 2 is the key, 3 the pattern, 4 and 5 descriptors, *)
(* 6 an ingredient for a scanned container                                  *)

RowVals ==
    {StrV(<<"X", "X">>), StrV(<<" ", "X">>), StrV(<<"X", "Y">>), StrV(<<"Y">>), StrV(<<>>),
     IntV(3)}

Patterns == {ListObj(rows) : rows \in SeqUpTo(RowVals, MaxRows)}

KeyShapes ==
    {DictObj(<<KV("X", Ref(4))>>),
     DictObj(<<KV("X", Ref(4)), KV("Y", Ref(5))>>),
     DictObj(<<KV("X", Ref(4)), KV("Y", Ref(4))>>),
     DictObj(<<KV("XY", Ref(4))>>),
     DictObj(<<KV("", Ref(4))>>),
     DictObj(<<KV(" ", Ref(4))>>),
     DictObj(<<KV("X", StrV(<<"S">>))>>),
     DictObj(<<KV("X", Ref(3))>>)}

Descriptors ==
    {DictObj(<<KV("item", StrV(<<"S">>)), KV("amount", IntV(5))>>),
     DictObj(<<KV("id", StrV(<<"S">>)), KV("qty", IntV(MaxAmount))>>),
     DictObj(<<KV("id", StrV(<<"S">>))>>),
     DictObj(<<KV("id", StrV(<<"S">>)), KV("quantity", IntV(3))>>),
     DictObj(<<KV("name", StrV(<<" ">>)), KV("amount", IntV(1))>>),
     DictObj(<<KV("id", StrV(<<" ", "T">>)), KV("count", StrV(<<"2">>))>>)}

ScannedFields == {<<>>, <<KV("ingredients", Ref(6))>>}

ShapedBlock(fields, key, pattern, d1, d2) ==
    <<DictObj(<<KV("output", StrV(<<"O">>))>> \o fields), key, pattern, d1, d2, Leaf(<<"S">>, 1)>>

\* every pattern, under a key of one or two symbols
PatternEntries ==
    {ShapedBlock(<<KV("key", Ref(2)), KV("pattern", Ref(3))>> \o scanned,
                 key, pattern,
                 DictObj(<<KV("item", StrV(<<"S">>)), KV("amount", IntV(5))>>),
                 DictObj(<<KV("id", StrV(<<"T">>)), KV("amount", IntV(MaxAmount))>>)) :
        scanned \in ScannedFields,
        key \in {DictObj(<<KV("X", Ref(4))>>), DictObj(<<KV("X", Ref(4)), KV("Y", Ref(5))>>)},
        pattern \in Patterns}

\* every key shape and descriptor, under the pattern ["XX", " X", "XY"]
KeyEntries ==
    {ShapedBlock(<<KV("key", Ref(2)), KV("pattern", Ref(3))>> \o scanned,
                 key,
                 ListObj(<<StrV(<<"X", "X">>), StrV(<<" ", "X">>), StrV(<<"X", "Y">>)>>),
                 d1, d2) :
        scanned \in ScannedFields, key \in KeyShapes, d1 \in Descriptors,
        d2 \in {Leaf(<<"S">>, 1), Leaf(<<"T">>, MaxAmount)}}

\* a key or a pattern of another type, or one of the two missing
MistypedShapedEntries ==
    {ShapedBlock(fields \o <<KV("ingredients", Ref(6))>>,
                 DictObj(<<KV("X", Ref(4))>>),
                 ListObj(<<StrV(<<"X", "X">>)>>),
                 Leaf(<<"S">>, 5), Leaf(<<"T">>, 1)) :
        fields \in {<<KV("key", kv), KV("pattern", pv)>> :
                        kv \in {Ref(2), Ref(3), NoneV, StrV(<<"X">>)},
                        pv \in {Ref(3), Ref(2), NoneV, IntV(1), StrV(<<"X", " ", "X">>)}}
                   \cup {<<KV("key", Ref(2))>>, <<KV("pattern", Ref(3))>>}}

-----------------------------------------------------------------------------
(* The payloads *)

BatchMembers ==
    {Atom(NoneV), Atom(IntV(1)), Atom(StrV(<<"A">>)),
     Block(<<ListObj(<<Ref(2)>>), Leaf(<<"A">>, 1)>>),
     Block(<<DictObj(<<KV("ingredients", Ref(2))>>), Leaf(<<"A">>, 1)>>),
     Block(<<DictObj(<<KV("output", StrV(<<"A">>))>>)>>),
     Block(<<DictObj(<<KV("output", StrV(<<"A">>)), KV("ingredients", Ref(2))>>),
             ListObj(<<>>)>>),
     Block(<<DictObj(<<KV("output", StrV(<<"A">>)), KV("ingredients", Ref(2))>>),
             Leaf(<<"B">>, 1)>>),
     Block(<<DictObj(<<KV("output", Ref(2)), KV("input", Ref(3))>>),
             DictObj(<<KV("itemId", StrV(<<"C">>)), KV("amount", IntV(MaxAmount))>>),
             ListObj(<<Ref(4)>>),
             DictObj(<<KV("itemId", StrV(<<"D">>)), KV("amount", IntV(3))>>)>>)}

\* a mapping with an identifier under two of the identifier keys
TwoIdMappings ==
    {DictObj(<<KV(OutputIdKeys[ks[1]], v), KV(OutputIdKeys[ks[2]], StrV(<<"B">>)),
               KV("amount", IntV(2))>>) :
        ks \in {p \in (DOMAIN OutputIdKeys) \X (DOMAIN OutputIdKeys) : p[1] < p[2]},
        v \in IdVals}

\* such a mapping as the output, as the one ingredient, and as a key descriptor
TwoIdEntries ==
    {<<DictObj(<<KV("output", Ref(3)), KV("ingredients", Ref(2))>>), Leaf(<<"I">>, 1), m>> :
        m \in TwoIdMappings}
    \cup {<<DictObj(<<KV("output", StrV(<<"O">>)), KV("ingredients", Ref(2))>>),
            ListObj(<<Ref(3)>>), m>> : m \in TwoIdMappings}
    \cup {ShapedBlock(<<KV("key", Ref(2)), KV("pattern", Ref(3))>>,
                      DictObj(<<KV("X", Ref(4))>>), ListObj(<<StrV(<<"X", "X">>)>>),
                      m, Leaf(<<"T">>, 1)) : m \in TwoIdMappings}

RichEntries ==
    DecodeEntries \cup PrecedenceEntries \cup FallbackEntries
    \cup ContainerKeyEntries \cup NestedEntries \cup IngredientEntries
    \cup PatternEntries \cup KeyEntries \cup MistypedShapedEntries \cup TwoIdEntries

Payloads ==
    {ListPayload(ms) : ms \in SeqUpTo(BatchMembers, MaxEntries)}
    \cup {DictPayload(ms) : ms \in SeqUpTo(BatchMembers, MaxEntries)}
    \cup {AtomPayload(v) : v \in {NoneV, IntV(3), StrV(<<"A", "B">>)}}
    \cup {ListPayload(<<Block(e)>>) : e \in RichEntries}

-----------------------------------------------------------------------------
(* CraftRepository: from_hypixel_payload, to_payload, from_mapping *)

\* nothing of the container scan is running
ScanIdle == stack = <<>> /\ seen = {} /\ yielded = <<>>

NoUrl == 0 - 1
NoExit == 0 - 1

\* no recipe client exists
FetchIdle ==
    /\ caller = ""
    /\ api_url = NoUrl
    /\ fallback_urls = <<>>
    /\ with_fallbacks = FALSE
    /\ answers = <<>>
    /\ contacted = <<>>
    /\ used = NoUrl
    /\ exit_code = NoExit
    /\ stderr = ""

\* nothing of the analyzer is running
AnalysisIdle ==
    /\ products = <<>>
    /\ min_profit = 0
    /\ min_popularity = 0
    /\ sort_by = "profit"
    /\ limit = NoneV
    /\ pos = 1
    /\ result = NoResult
    /\ evaluated = <<>>
    /\ ranked = <<>>

Init ==
    /\ \E p \in Payloads : heap = p.heap /\ data = p.data
    /\ pc = "start"
    /\ entries = <<>>
    /\ idx = 1
    /\ recipes = <<>>
    /\ cur = NoCur
    /\ exc = ""
    /\ canon = <<>>
    /\ reloaded = <<>>
    /\ ScanIdle
    /\ AnalysisIdle
    /\ FetchIdle

\* _parse_hypixel_payload, up to the loop: which entries there are
Begin ==
    /\ pc = "start"
    /\ IF IsMapping(heap, data) \/ IsSequence(heap, data)
       THEN /\ entries' = Elements(heap, data)
            /\ pc' = "loop"
       ELSE /\ entries' = <<>>
            /\ pc' = "built"
    /\ UNCHANGED <<heap, data, idx, recipes, cur, exc, canon, reloaded, scanVars, analysisVars,
                   fetchVars>>

\* the effect of one iteration whose outcome is r
Record(entry, r) ==
    /\ cur' = [entry |-> entry] @@ r
    /\ recipes' = IF r.stage = "emitted"
                  THEN Append(recipes, Recipe(r.product_id, r.output_amount, r.ingredients))
                  ELSE recipes
    /\ exc' = r.exc
    /\ pc' = IF r.stage = "raised" THEN "raised" ELSE "loop"

\* one iteration of `for entry in entries`
ParseNext ==
    /\ pc = "loop"
    /\ idx <= Len(entries)
    /\ Record(entries[idx], ParseEntry(heap, entries[idx]))
    /\ idx' = idx + 1
    /\ UNCHANGED <<heap, data, entries, canon, reloaded, scanVars, analysisVars,
                   fetchVars>>

\* the loop is over: from_hypixel_payload returns the repository
Built ==
    /\ pc = "loop"
    /\ idx > Len(entries)
    /\ pc' = "built"
    /\ UNCHANGED <<heap, data, entries, idx, recipes, cur, exc, canon, reloaded, scanVars,
                   analysisVars, fetchVars>>

\* repository.to_payload()
ToPayload ==
    /\ pc = "built"
    /\ canon' = to_payload(recipes)
    /\ pc' = "saved"
    /\ UNCHANGED <<heap, data, entries, idx, recipes, cur, exc, reloaded, scanVars, analysisVars,
                   fetchVars>>

\* the effect of from_mapping whose outcome is r
Reload(r) ==
    /\ reloaded' = r.recipes
    /\ exc' = r.exc
    /\ pc' = IF r.exc = "" THEN "reloaded" ELSE "raised"

\* CraftRepository.from_mapping(payload)
FromMapping ==
    /\ pc = "saved"
    /\ Reload(_parse_payload(canon, Ref(1)))
    /\ UNCHANGED <<heap, data, entries, idx, recipes, cur, canon, scanVars, analysisVars,
                   fetchVars>>

Next == Begin \/ ParseNext \/ Built \/ ToPayload \/ FromMapping

Spec == Init /\ [][Next]_vars

-----------------------------------------------------------------------------
(* The container scan step by step: _extract_ingredient_container driven to  *)
(* exhaustion, one call or return of the recursive generator per step        *)

\* the depth of nested calls at which the interpreter raises RecursionError,
\* scaled to the graphs explored
RecursionLimit == NObj + 2

\* the shapes of a container whose children are among refs: an ingredient, a list of
\* two containers, a mapping that holds a container, an ingredient that holds one
ScanShapes(refs) ==
    {Leaf(<<"A">>, 1)}
    \cup {ListObj(<<p[1], p[2]>>) : p \in {q \in refs \X refs : q[1].n <= q[2].n}}
    \cup {DictObj(<<KV("x", r), KV("id", StrV(<<"A">>))>>) : r \in refs}
    \cup {DictObj(<<KV("id", StrV(<<"B">>)), KV("qty", IntV(1)), KV("x", r)>>) : r \in refs}

ScanRefs == {Ref(j) : j \in 1..NObj}

\* every graph of NObj containers, cyclic ones included; the scan starts at the first
ScanGraphs == [1..NObj -> ScanShapes(ScanRefs)]

Frame(obj, at) == [obj |-> obj, at |-> at]

InitScan ==
    /\ \/ heap \in ScanGraphs /\ data = Ref(1)
       \/ heap = <<>> /\ data \in {StrV(<<"A">>), NoneV}
    /\ pc = "scan_start"
    /\ exc = ""
    /\ recipes = <<>>
    /\ entries = <<>>
    /\ idx = 1
    /\ cur = NoCur
    /\ canon = <<>>
    /\ reloaded = <<>>
    /\ ScanIdle
    /\ AnalysisIdle
    /\ FetchIdle

\* `return` after the yield left out: the values of an emitted mapping are visited too
ScanMappingDescending(frames, container, ing) ==
    IF ing.exc /= ""
    THEN /\ exc' = ing.exc
         /\ pc' = "raised"
         /\ UNCHANGED <<stack, yielded>>
    ELSE /\ yielded' = IF ing.product_id /= <<>> /\ ing.amount > 0
                       THEN Append(yielded, Pair(ing.product_id, ing.amount))
                       ELSE yielded
         /\ stack' = Append(frames, Frame(container.n, 1))
         /\ pc' = "scanning"
         /\ UNCHANGED exc

\* lines 261-283 for a mapping just added to seen; ing is the mapping as an ingredient
ScanMapping(frames, container, ing) ==
    IF ing.exc /= ""
    THEN /\ exc' = ing.exc
         /\ pc' = "raised"
         /\ UNCHANGED <<stack, yielded>>
    ELSE IF ing.product_id /= <<>> /\ ing.amount > 0
    THEN /\ yielded' = Append(yielded, Pair(ing.product_id, ing.amount))
         /\ stack' = frames
         /\ pc' = "scanning"
         /\ UNCHANGED exc
    ELSE /\ stack' = Append(frames, Frame(container.n, 1))
         /\ pc' = "scanning"
         /\ UNCHANGED <<yielded, exc>>

\* seen.add(obj_id) left out
EnteredUnrecorded(obj_id, visited) == visited

\* seen.add(obj_id)
Entered(obj_id, visited) == visited \cup {obj_id}

\* the call inner(container, seen) made while the frames are suspended
ScanCall(frames, container) ==
    IF ~(IsMapping(heap, container) \/ IsSequence(heap, container)) \/ container.t = "str"
    THEN /\ stack' = frames
         /\ pc' = "scanning"
         /\ UNCHANGED <<seen, yielded, exc>>
    ELSE IF Len(frames) >= RecursionLimit
    THEN /\ exc' = "RecursionError"
         /\ pc' = "raised"
         /\ UNCHANGED <<stack, seen, yielded>>
    ELSE IF AlreadySeen(container.n, seen)
    THEN /\ stack' = frames
         /\ pc' = "scanning"
         /\ UNCHANGED <<seen, yielded, exc>>
    ELSE /\ seen' = Entered(container.n, seen)
         /\ IF IsMapping(heap, container)
            THEN ScanMapping(frames, container, AsIngredient(heap, heap[container.n]))
            ELSE /\ stack' = Append(frames, Frame(container.n, 1))
                 /\ pc' = "scanning"
                 /\ UNCHANGED <<yielded, exc>>

\* _extract_ingredient_container(container): seen = set(), then the first call
ScanStart ==
    /\ pc = "scan_start"
    /\ ScanCall(<<>>, data)
    /\ UNCHANGED <<heap, data, recipes, normalizerVars, analysisVars, fetchVars>>

\* the frames with the loop of the innermost one moved to its next value
Advanced(frames) ==
    [frames EXCEPT ![Len(frames)] = Frame(frames[Len(frames)].obj, frames[Len(frames)].at + 1)]

\* the innermost loop takes its next value: yield from inner(value, seen)
ScanVisit ==
    /\ pc = "scanning"
    /\ stack /= <<>>
    /\ stack[Len(stack)].at <= Len(heap[stack[Len(stack)].obj].items)
    /\ ScanCall(Advanced(stack), heap[stack[Len(stack)].obj].items[stack[Len(stack)].at].v)
    /\ UNCHANGED <<heap, data, recipes, normalizerVars, analysisVars, fetchVars>>

\* the innermost loop is exhausted: the generator returns to its caller
ScanReturn ==
    /\ pc = "scanning"
    /\ stack /= <<>>
    /\ stack[Len(stack)].at > Len(heap[stack[Len(stack)].obj].items)
    /\ stack' = SubSeq(stack, 1, Len(stack) - 1)
    /\ UNCHANGED <<heap, data, pc, exc, recipes, normalizerVars, seen, yielded, analysisVars,
                   fetchVars>>

\* the outermost generator is exhausted
ScanFinish ==
    /\ pc = "scanning"
    /\ stack = <<>>
    /\ pc' = "scanned"
    /\ UNCHANGED <<heap, data, exc, recipes, normalizerVars, scanVars, analysisVars,
                   fetchVars>>

NextScan == ScanStart \/ ScanVisit \/ ScanReturn \/ ScanFinish

\* the for loop of _extract_ingredients drives the generator until it is exhausted
SpecScan == InitScan /\ [][NextScan]_vars /\ WF_vars(NextScan)

-----------------------------------------------------------------------------
(* BazaarAnalyzer.rank_recipes over a price snapshot *)

Ingr(id, amount) == Pair(<<id>>, amount)

AnalysisRecipes ==
    {Recipe(<<"A">>, 1, <<Ingr("B", MaxAmount)>>),
     Recipe(<<"A">>, 1, <<Ingr("B", 1), Ingr("C", MaxAmount)>>),
     Recipe(<<"A">>, MaxAmount, <<Ingr("A", 1)>>),
     Recipe(<<"B">>, MaxAmount, <<Ingr("C", 1)>>),
     Recipe(<<"B">>, 1, <<>>),
     Recipe(<<"B">>, 1, <<Ingr("C", 1), Ingr("A", 1)>>),
     Recipe(<<"C">>, 1, <<Ingr("B", 1)>>),
     Recipe(<<"C">>, 1, <<Ingr("A", 1), Ingr("B", 1)>>)}

PriceTable ==
    (<<"A">> :> BazaarProduct(<<"A">>, 20, 22, 5, 5))
    @@ (<<"B">> :> BazaarProduct(<<"B">>, 3, 4, 2, 1))
    @@ (<<"C">> :> BazaarProduct(<<"C">>, 6, 5, 0, 4))

\* every snapshot that prices some of the products
Snapshots == {[id \in S |-> PriceTable[id]] : S \in SUBSET (DOMAIN PriceTable)}

Limits == {NoneV} \cup {IntV(n) : n \in -1..MaxRecipes}

InitAnalysis ==
    /\ products \in Snapshots
    /\ recipes \in SeqUpTo(AnalysisRecipes, MaxRecipes)
    /\ min_profit \in {0, 5}
    /\ min_popularity \in {0, 4}
    /\ sort_by = "profit"
    /\ limit = NoneV
    /\ pos = 1
    /\ result = NoResult
    /\ evaluated = <<>>
    /\ ranked = <<>>
    /\ pc = "rank"
    /\ exc = ""
    /\ heap = <<>>
    /\ data = NoneV
    /\ entries = <<>>
    /\ idx = 1
    /\ cur = NoCur
    /\ canon = <<>>
    /\ reloaded = <<>>
    /\ ScanIdle
    /\ FetchIdle

\* lines 87-93 for the result r of evaluate_recipe
Considered(r) ==
    /\ result' = r
    /\ evaluated' = IF r.none \/ r.profit < min_profit \/ r.popularity < min_popularity
                    THEN evaluated
                    ELSE Append(evaluated, r)

\* one iteration of `for recipe in recipes`
RankNext ==
    /\ pc = "rank"
    /\ pos <= Len(recipes)
    /\ Considered(evaluate_recipe(products, recipes[pos]))
    /\ pos' = pos + 1
    /\ UNCHANGED <<heap, data, pc, exc, recipes, normalizerVars, scanVars, fetchVars,
                   products,
                   min_profit, min_popularity, sort_by, limit, ranked>>

\* the loop is over: sort, truncate, return; sort_by and limit are read only here
RankReturn ==
    /\ pc = "rank"
    /\ pos > Len(recipes)
    /\ sort_by' \in SortKeys \cup {"name"}
    /\ limit' \in Limits
    /\ ranked' = Limited(Sorted(evaluated, sort_by', <<>>), limit')
    /\ pc' = "ranked"
    /\ UNCHANGED <<heap, data, exc, recipes, normalizerVars, scanVars, fetchVars,
                   products,
                   min_profit, min_popularity, pos, result, evaluated>>

NextAnalysis == RankNext \/ RankReturn

SpecAnalysis == InitAnalysis /\ [][NextAnalysis]_vars

-----------------------------------------------------------------------------
(* HypixelRecipeClient and the fetch-recipes subcommand.  An endpoint is a   *)
(* number: api_url is the primary one, the others are fallbacks.  What       *)
(* fetch_repository makes of the payload is the normalizer of Spec.          *)

Urls == 0..MaxFallbacks

\* how urlopen ends: a JSON answer, an HTTPError or a URLError
Answers == {"ok", "HTTPError", "URLError"}

\* handle_fetch_recipes always passes the keyword fallback_urls (None without the
\* option --recipes-fallback-url); a library user passes it or not
InitFetch ==
    /\ caller \in {"cli", "library"}
    /\ api_url = 0
    /\ with_fallbacks \in BOOLEAN
    /\ caller = "cli" => with_fallbacks
    /\ fallback_urls \in SeqUpTo(Urls \ {0}, MaxFallbacks)
    /\ ~with_fallbacks => fallback_urls = <<>>
    /\ answers \in [Urls -> Answers]
    /\ contacted = <<>>
    /\ used = NoUrl
    /\ exit_code = NoExit
    /\ stderr = ""
    /\ pc = "construct"
    /\ exc = ""
    /\ heap = <<>>
    /\ data = NoneV
    /\ entries = <<>>
    /\ idx = 1
    /\ recipes = <<>>
    /\ cur = NoCur
    /\ canon = <<>>
    /\ reloaded = <<>>
    /\ ScanIdle
    /\ AnalysisIdle

\* HypixelRecipeClient(api_url=..., [fallback_urls=...]): __init__ takes api_url,
\* timeout and api_key only, so any other keyword is a TypeError
Construct ==
    /\ pc = "construct"
    /\ IF with_fallbacks
       THEN exc' = "TypeError" /\ pc' = "raised"
       ELSE exc' = exc /\ pc' = "constructed"
    /\ UNCHANGED <<heap, data, recipes, normalizerVars, scanVars, analysisVars, caller,
                   api_url, fallback_urls, with_fallbacks, answers, contacted, used,
                   exit_code, stderr>>

\* fetch_raw: one request, to self.api_url; HTTPError and URLError become RuntimeError
FetchRaw ==
    /\ pc = "constructed"
    /\ contacted' = Append(contacted, api_url)
    /\ IF answers[api_url] = "ok"
       THEN used' = api_url /\ exc' = exc /\ pc' = "fetched"
       ELSE used' = used /\ exc' = "RuntimeError" /\ pc' = "raised"
    /\ UNCHANGED <<heap, data, recipes, normalizerVars, scanVars, analysisVars, caller,
                   api_url, fallback_urls, with_fallbacks, answers, exit_code, stderr>>

\* the message of the RuntimeError that fetch_raw raised for the last request
FetchError ==
    IF answers[contacted[Len(contacted)]] = "HTTPError"
    THEN "error: Failed to fetch recipes data"
    ELSE "error: Unable to contact recipes API"

\* the rest of handle_fetch_recipes and main: a RuntimeError of the fetch is printed
\* and returns 1, the recipes fetched are saved and return 0; any other exception
\* leaves main uncaught, and the interpreter prints the traceback and exits with 1
Exit ==
    /\ caller = "cli"
    /\ pc \in {"fetched", "raised"}
    /\ pc' = "exited"
    /\ IF pc = "fetched"
       THEN exit_code' = 0 /\ stderr' = stderr
       ELSE IF exc = "RuntimeError"
       THEN exit_code' = 1 /\ stderr' = FetchError
       ELSE exit_code' = 1 /\ stderr' = "Traceback"
    /\ UNCHANGED <<heap, data, exc, recipes, normalizerVars, scanVars, analysisVars, caller,
                   api_url, fallback_urls, with_fallbacks, answers, contacted, used>>

NextFetch == Construct \/ FetchRaw \/ Exit

SpecFetch == InitFetch /\ [][NextFetch]_vars

-----------------------------------------------------------------------------
(* Loading a recipes file: from_mapping / from_json_file on any payload of   *)
(* the canonical shape.  Object 1 is the payload, object 2 its "recipes".    *)

\* what a file may hold under product_id, or not hold (<<>>)
LoadIdFields(absent) ==
    {<<>>}
    \cup {<<KV("product_id", v)>> :
            v \in {StrV(<<"A">>), StrV(<<>>), StrV(<<" ">>), NoneV, IntV(7)} \ {absent}}

LoadAmountFields ==
    {<<>>}
    \cup {<<KV("amount", v)>> :
            v \in {IntV(1), IntV(0), NoneV, StrV(<<"2">>), StrV(<<"x">>)}}

LoadIngredients == {DictObj(i \o a) : i \in LoadIdFields(IntV(7)), a \in LoadAmountFields}

LoadOutputAmounts ==
    {<<>>, <<KV("output_amount", IntV(MaxAmount))>>, <<KV("output_amount", StrV(<<"x">>))>>}

\* a file of one entry with one ingredient, every field varied
LoadSingles ==
    {<<DictObj(<<KV("recipes", Ref(2))>>),
       ListObj(<<Ref(3)>>),
       DictObj(i \o o \o <<KV("ingredients", Ref(4))>>),
       ListObj(<<Ref(5)>>),
       g>> :
        i \in LoadIdFields(StrV(<<" ">>)), o \in LoadOutputAmounts, g \in LoadIngredients}

\* the entries of a longer file: [fields, ingredients]
LoadMembers ==
    {[fields |-> <<KV("product_id", StrV(<<"A">>))>>, ingredients |-> <<Leaf(<<"I">>, 1)>>],
     [fields |-> <<>>, ingredients |-> <<Leaf(<<"I">>, 1)>>],
     [fields |-> <<KV("product_id", StrV(<<"B">>))>>, ingredients |-> <<>>],
     [fields |-> <<KV("product_id", StrV(<<"C">>)), KV("output_amount", IntV(MaxAmount))>>,
      ingredients |-> <<DictObj(<<KV("product_id", StrV(<<"I">>))>>),
                        DictObj(<<KV("product_id", StrV(<<"J">>)), KV("amount", IntV(2))>>)>>]}

\* the objects of the entries ms from the j-th on, allocated from identity base + 1
RECURSIVE LoadObjs(_, _, _)
LoadObjs(ms, j, base) ==
    IF j > Len(ms)
    THEN <<>>
    ELSE <<DictObj(ms[j].fields \o <<KV("ingredients", Ref(base + 2))>>),
           ListObj([k \in DOMAIN ms[j].ingredients |-> Ref(base + 2 + k)])>>
         \o ms[j].ingredients
         \o LoadObjs(ms, j + 1, base + 2 + Len(ms[j].ingredients))

RECURSIVE LoadRoots(_, _, _)
LoadRoots(ms, j, base) ==
    IF j > Len(ms)
    THEN <<>>
    ELSE <<Ref(base + 1)>> \o LoadRoots(ms, j + 1, base + 2 + Len(ms[j].ingredients))

\* a file of up to MaxEntries entries, and files that are no mapping of a list
LoadFiles ==
    LoadSingles
    \cup {<<DictObj(<<KV("recipes", Ref(2))>>), ListObj(LoadRoots(ms, 1, 2))>>
          \o LoadObjs(ms, 1, 2) : ms \in SeqUpTo(LoadMembers, MaxEntries)}
    \cup {<<DictObj(<<>>)>>, <<ListObj(<<>>)>>, <<DictObj(<<KV("recipes", NoneV)>>)>>}

InitLoad ==
    /\ canon \in LoadFiles
    /\ pc = "saved"
    /\ exc = ""
    /\ heap = <<>>
    /\ data = NoneV
    /\ entries = <<>>
    /\ idx = 1
    /\ recipes = <<>>
    /\ cur = NoCur
    /\ reloaded = <<>>
    /\ ScanIdle
    /\ AnalysisIdle
    /\ FetchIdle

NextLoad == FromMapping

SpecLoad == InitLoad /\ [][NextLoad]_vars

-----------------------------------------------------------------------------
(* Properties of the normalizer *)

RECURSIVE SumSeq(_)
SumSeq(xs) == IF xs = <<>> THEN 0 ELSE Head(xs) + SumSeq(Tail(xs))

\* the entry of the last iteration, as an object
CurEntry == heap[cur.entry.n]

\* the last iteration went through both extractions
Extracting == cur.stage \in {"emitted", "no_ingredients"}

Complete(entry) ==
    /\ IsMapping(heap, entry)
    /\ _extract_output(heap, entry).product_id /= <<>>
    /\ _extract_ingredients(heap, entry).ingredients /= <<>>

RecipeOf(entry) ==
    Recipe(_extract_output(heap, entry).product_id,
           _extract_output(heap, entry).amount,
           _extract_ingredients(heap, entry).ingredients)

RecipesOf(es) == [j \in DOMAIN es |-> RecipeOf(es[j])]

\* C1: the recipes built from the entries iterated so far are exactly those of the
\* entries that are mappings with a non-empty output identifier and a non-empty
\* merged ingredient map, in the order of the entries.
C1_ExactlyTheCompleteEntries ==
    pc \in {"loop", "built", "saved", "reloaded"}
        => recipes = RecipesOf(SelectSeq(SubSeq(entries, 1, idx - 1), Complete))

\* C1 witness: a batch of two entries of which only the second gives a recipe
C1_Witness ==
    /\ pc = "built"
    /\ Len(entries) = 2
    /\ ~Complete(entries[1])
    /\ Len(recipes) = 1
    /\ recipes[1].product_id = <<"C">>

\* mapping x is itself an ingredient: the scan yields it and does not descend
Resolves(h, x) ==
    /\ h[x].kind = "dict"
    /\ AsIngredient(h, h[x]).product_id /= <<>>
    /\ AsIngredient(h, h[x]).amount > 0

\* the containers held directly by x, when the scan descends into x
Inside(h, x) ==
    IF Resolves(h, x)
    THEN {}
    ELSE {h[x].items[m].v.n : m \in {m \in DOMAIN h[x].items : h[x].items[m].v.t = "ref"}}

RECURSIVE Reachable(_, _)
ReachableFrom(h, S, T) == IF T = S THEN S ELSE Reachable(h, T)

\* the containers found from those of S
Reachable(h, S) == ReachableFrom(h, S, S \cup UNION {Inside(h, x) : x \in S})

\* the amount of product_id that x stands for
Worth(h, x, product_id) ==
    IF Resolves(h, x) /\ AsIngredient(h, h[x]).product_id = product_id
    THEN AsIngredient(h, h[x]).amount
    ELSE 0

\* the amount of product_id found in the candidate container c
Held(h, c, product_id) ==
    IF c.t /= "ref"
    THEN 0
    ELSE SumSeq([x \in 1..Len(h) |->
                    IF x \in Reachable(h, {c.n}) THEN Worth(h, x, product_id) ELSE 0])

HeldByAll(h, e, product_id) ==
    SumSeq([j \in DOMAIN ContainerKeys |-> Held(h, Get(e, ContainerKeys[j]), product_id)])

IdsOf(amounts) == {amounts[j].product_id : j \in DOMAIN amounts}

IngredientIds(h) ==
    {AsIngredient(h, h[x]).product_id : x \in {x \in DOMAIN h : h[x].kind = "dict"}}

\* C2: after the container loop, the amount of every identifier is the sum of the
\* amounts of the valid pairs with that identifier found in the eight candidate
\* containers; nothing is recorded under the empty identifier or with an amount <= 0.
C2_ScanSumsAllContainers ==
    Extracting =>
        /\ \A p \in IdsOf(cur.scanned) \cup IngredientIds(heap) :
                AmountOf(cur.scanned, p) = HeldByAll(heap, CurEntry, p)
        /\ \A j \in DOMAIN cur.scanned :
                cur.scanned[j].product_id /= <<>> /\ cur.scanned[j].amount > 0

\* C2 witness: 5 in one container and 3 in another make 8
C2_Witness ==
    /\ cur.stage = "emitted"
    /\ Get(CurEntry, "key") = NoneV
    /\ \E a, b \in DOMAIN ContainerKeys :
        /\ a /= b
        /\ Held(heap, Get(CurEntry, ContainerKeys[a]), <<"A">>) = 5
        /\ Held(heap, Get(CurEntry, ContainerKeys[b]), <<"A">>) = 3
    /\ cur.ingredients = <<Pair(<<"A">>, 8)>>

WellFormed(ingredients) ==
    /\ ingredients /= <<>>
    /\ \A j \in DOMAIN ingredients :
        /\ ingredients[j].product_id /= <<>>
        /\ Strip(ingredients[j].product_id) = ingredients[j].product_id
        /\ ingredients[j].amount \in Int
        /\ ingredients[j].amount > 0
    /\ \A j, k \in DOMAIN ingredients :
        ingredients[j].product_id = ingredients[k].product_id => j = k

\* C3: every emitted recipe has a non-empty ingredient list of trimmed, non-empty
\* identifiers with integer amounts > 0, and no identifier twice.
C3_IngredientsWellFormed ==
    \A j \in DOMAIN recipes : WellFormed(recipes[j].ingredients)

\* some field of some object holds value v
Holds(h, v) == \E x \in DOMAIN h : \E m \in DOMAIN h[x].items : h[x].items[m].v = v

\* C3 witness: an ingredient written " A " in the payload is emitted as "A"
C3_Witness ==
    /\ pc = "built"
    /\ Holds(heap, StrV(<<" ", "A", " ">>))
    /\ Len(recipes) = 1
    /\ recipes[1].ingredients = <<Pair(<<"A">>, 2)>>

\* C4: every emitted recipe has an output amount >= 1.
C4_OutputAmountAtLeastOne ==
    \A j \in DOMAIN recipes : recipes[j].output_amount >= 1

\* the number of cells of the string rows that are the symbol; blank cells count for none
Occurrences(rows, symbol) ==
    IF IsSpace(symbol)
    THEN 0
    ELSE SumSeq([r \in DOMAIN rows |->
                    IF rows[r].t = "str"
                    THEN Cardinality({c \in DOMAIN rows[r].s : rows[r].s[c] = symbol})
                    ELSE 0])

\* what the key entry (symbol, descriptor) adds to product_id
KeyWorth(h, item, rows, product_id) ==
    IF /\ IsMapping(h, item.v)
       /\ KeyIngredient(h, h[item.v.n]).product_id /= <<>>
       /\ KeyIngredient(h, h[item.v.n]).product_id = product_id
       /\ KeyIngredient(h, h[item.v.n]).amount > 0
    THEN KeyIngredient(h, h[item.v.n]).amount * Occurrences(rows, item.k)
    ELSE 0

OverlayTotal(h, key_items, rows, product_id) ==
    SumSeq([j \in DOMAIN key_items |-> KeyWorth(h, key_items[j], rows, product_id)])

Shaped(h, e) == IsMapping(h, Get(e, "key")) /\ IsSequence(h, Get(e, "pattern"))

KeyIds(h, key_items) ==
    {KeyIngredient(h, h[key_items[j].v.n]).product_id :
        j \in {j \in DOMAIN key_items : IsMapping(h, key_items[j].v)}}

\* C5: for an entry with a key mapping and a pattern sequence, the total of every
\* identifier is its total from the container scan plus, for each key symbol whose
\* descriptor resolves to it with an amount > 0, that amount times the number of
\* non-blank pattern cells holding the symbol.
C5_OverlayAddsPerCell ==
    Extracting /\ Shaped(heap, CurEntry) =>
        \A p \in IdsOf(cur.ingredients) \cup KeyIds(heap, heap[Get(CurEntry, "key").n].items) :
            AmountOf(cur.ingredients, p)
                = AmountOf(cur.scanned, p)
                  + OverlayTotal(heap, heap[Get(CurEntry, "key").n].items,
                                 Elements(heap, Get(CurEntry, "pattern")), p)

\* C5 witness: pattern ["XX", " X"] with X -> (S, 5), over a scan that found S once
C5_Witness ==
    /\ cur.stage = "emitted"
    /\ Shaped(heap, CurEntry)
    /\ Elements(heap, Get(CurEntry, "pattern")) = <<StrV(<<"X", "X">>), StrV(<<" ", "X">>)>>
    /\ cur.scanned = <<Pair(<<"S">>, 1)>>
    /\ cur.ingredients = <<Pair(<<"S">>, 16)>>

\* C6: the recipes loaded back from the saved payload are the recipes saved, and
\* loading them does not fail.
C6_RoundTrip ==
    canon /= <<>> /\ pc /= "saved" => pc = "reloaded" /\ reloaded = recipes

\* C6 witness: a recipe whose identifier has a leading blank, reloaded
C6_Witness ==
    /\ pc = "reloaded"
    /\ Len(reloaded) = 1
    /\ reloaded[1].product_id = <<" ", "A">>
    /\ reloaded[1].ingredients /= <<>>

\* C8: from_hypixel_payload ends with no exception, whatever the payload.
C8_NeverRaises ==
    /\ cur.exc = ""
    /\ cur.stage /= "raised"
    /\ canon = <<>> => exc = "" /\ pc /= "raised"

\* C8 witness: an amount field holding a mapping, and the batch still built
C8_Witness ==
    /\ pc = "built"
    /\ \E x \in DOMAIN heap : IsMapping(heap, Get(heap[x], "amount"))
    /\ recipes /= <<>>

\* the structured candidates of e that yield an identifier
Yielding(h, e) ==
    {j \in DOMAIN OutputCandidates :
        _decode_output(h, Get(e, OutputCandidates[j])).product_id /= <<>>}

TopId(h, e) == _coerce_product_id(OrChain(h, Gets(e, TopIdKeys)))

TopAmount(h, e) ==
    IF \A j \in DOMAIN TopAmountKeys : ~Truthy(h, Get(e, TopAmountKeys[j]))
    THEN 1
    ELSE _coerce_int(OrChain(h, Gets(e, TopAmountKeys)), 1).n

\* C9: the output is what the first structured candidate with a non-empty identifier
\* decodes to; with no such candidate it is the entry's top-level identifier with the
\* entry's top-level amount, 1 when no amount is given; with neither, no identifier.
C9_FirstCandidateWins ==
    cur.stage \in {"emitted", "no_ingredients", "no_output"} =>
        IF Yielding(heap, CurEntry) /= {}
        THEN /\ cur.product_id
                    = _decode_output(heap, Get(CurEntry,
                            OutputCandidates[Min(Yielding(heap, CurEntry))])).product_id
             /\ cur.output_amount
                    = _decode_output(heap, Get(CurEntry,
                            OutputCandidates[Min(Yielding(heap, CurEntry))])).amount
        ELSE IF TopId(heap, CurEntry) /= <<>>
        THEN /\ cur.product_id = TopId(heap, CurEntry)
             /\ cur.output_amount = TopAmount(heap, CurEntry)
        ELSE cur.product_id = <<>> /\ cur.stage = "no_output"

\* C9 witness: two candidates yield an identifier, and top-level fields are present
C9_Witness ==
    /\ cur.stage = "emitted"
    /\ Cardinality(Yielding(heap, CurEntry)) = 2
    /\ TopId(heap, CurEntry) = <<"T">>
    /\ cur.product_id = <<"C">>
    /\ cur.output_amount = 2

\* the containers that lie on a cycle reachable from the root
OnCycle(h, x) == \E y \in Inside(h, x) : x \in Reachable(h, {y})

Cyclic(h, root) == root.t = "ref" /\ \E x \in Reachable(h, {root.n}) : OnCycle(h, x)

YieldedAmount(product_id) ==
    SumSeq([j \in DOMAIN yielded |->
                IF yielded[j].product_id = product_id THEN yielded[j].amount ELSE 0])

\* the ingredient mappings found from the root
Found(h, root) ==
    IF root.t /= "ref" THEN {} ELSE {x \in Reachable(h, {root.n}) : Resolves(h, x)}

\* every ingredient mapping found from the root has been yielded, once
YieldedAll ==
    /\ Len(yielded) = Cardinality(Found(heap, data))
    /\ \A p \in IdsOf(yielded) \cup IngredientIds(heap) :
            YieldedAmount(p) = Held(heap, data, p)

\* C7: the scan of any container graph, cyclic or not, comes to its end without
\* an exception, having yielded each ingredient mapping found from the root once.
C7_ScanTerminates == <>(pc = "scanned" /\ exc = "" /\ YieldedAll)

\* C7 witness: the scan of a graph with a cycle has ended and yielded an ingredient
C7_Witness ==
    /\ pc = "scanned"
    /\ Cyclic(heap, data)
    /\ yielded /= <<>>

-----------------------------------------------------------------------------
(* Properties of the analyzer *)

\* the snapshot has a price for the output and for every ingredient of the recipe
Priced(recipe) ==
    /\ recipe.product_id \in DOMAIN products
    /\ \A j \in DOMAIN recipe.ingredients : recipe.ingredients[j].product_id \in DOMAIN products

\* what the ingredients of a priced recipe cost
Cost(recipe) ==
    SumSeq([j \in DOMAIN recipe.ingredients |->
                recipe.ingredients[j].amount
                    * products[recipe.ingredients[j].product_id].buy_price])

\* the priced recipes that a result r can be the evaluation of
Origins(r) ==
    {i \in DOMAIN recipes :
        /\ Priced(recipes[i])
        /\ recipes[i].product_id = r.product_id
        /\ recipes[i].output_amount = r.output_amount
        /\ Cost(recipes[i]) = r.total_buy_cost}

\* the results of rs are results, each of its own priced recipe
OfPricedRecipes(rs) ==
    \A j \in DOMAIN rs :
        /\ ~rs[j].none
        /\ Cardinality({k \in DOMAIN rs : rs[k] = rs[j]}) <= Cardinality(Origins(rs[j]))

\* C10: evaluate_recipe returns None exactly for a recipe whose output or one of
\* whose ingredients has no price in the snapshot, and nothing rank_recipes keeps or
\* returns comes from such a recipe, whatever the thresholds, sort key and limit.
C10_MissingPriceNoResult ==
    /\ pos > 1 => (result.none <=> ~Priced(recipes[pos - 1]))
    /\ OfPricedRecipes(evaluated)
    /\ OfPricedRecipes(ranked)

\* C10 witness: of two recipes the first lacks the price of an ingredient only, and
\* the ranking returned is the second alone
C10_Witness ==
    /\ pc = "ranked"
    /\ Len(recipes) = 2
    /\ recipes[1].product_id \in DOMAIN products
    /\ ~Priced(recipes[1])
    /\ Priced(recipes[2])
    /\ Len(ranked) = 1


\* the popularity of the product priced under id: its two volumes together
Volume(id) == products[id].sell_volume + products[id].buy_volume

\* the products a priced recipe touches: its output and its ingredients
Touched(recipe) ==
    {recipe.product_id}
    \cup {recipe.ingredients[j].product_id : j \in DOMAIN recipe.ingredients}

\* x is the least popularity among the products the recipe touches
LeastVolume(recipe, x) ==
    /\ \E id \in Touched(recipe) : Volume(id) = x
    /\ \A id \in Touched(recipe) : Volume(id) >= x

\* r carries the figures of the priced recipe
FiguresOf(recipe, r) ==
    /\ ~r.none
    /\ r.product_id = recipe.product_id
    /\ r.output_amount = recipe.output_amount
    /\ r.total_buy_cost = Cost(recipe)
    /\ r.total_sell_price = recipe.output_amount * products[recipe.product_id].sell_price
    /\ r.profit = r.total_sell_price - r.total_buy_cost
    /\ r.roi.den > 0
    /\ IF r.total_buy_cost > 0
       THEN r.roi.num * r.total_buy_cost = r.profit * r.roi.den
       ELSE r.roi.num = 0
    /\ LeastVolume(recipe, r.popularity)

\* C11: for a recipe whose output and ingredients are all priced, evaluate_recipe
\* returns cost = sum of amount * buy_price, sell value = output_amount * sell_price,
\* profit = sell value - cost, roi = profit / cost (0 when cost <= 0) and popularity =
\* the least of sell_volume + buy_volume over the output and the ingredients.
C11_EvaluationFigures ==
    pos > 1 /\ Priced(recipes[pos - 1]) => FiguresOf(recipes[pos - 1], result)

\* C11 witness: a priced recipe of two ingredients, evaluated at a loss, whose least
\* popular product is an ingredient
C11_Witness ==
    /\ pos > 1
    /\ Priced(recipes[pos - 1])
    /\ Len(recipes[pos - 1].ingredients) = 2
    /\ result.total_buy_cost > 0
    /\ result.profit < 0
    /\ result.popularity < Volume(recipes[pos - 1].product_id)


-----------------------------------------------------------------------------
(* Properties of the ranking *)

\* the results of the recipes in rs, in their order, that pass the two thresholds
RECURSIVE Qualifying(_)
Qualifying(rs) ==
    IF rs = <<>>
    THEN <<>>
    ELSE IF /\ Priced(Head(rs))
            /\ evaluate_recipe(products, Head(rs)).profit >= min_profit
            /\ evaluate_recipe(products, Head(rs)).popularity >= min_popularity
    THEN <<evaluate_recipe(products, Head(rs))>> \o Qualifying(Tail(rs))
    ELSE Qualifying(Tail(rs))

\* how many times r stands in rs
Times(rs, r) == Cardinality({k \in DOMAIN rs : rs[k] = r})

\* a's key is strictly larger than b's, for the key sort_by selects
KeyLarger(a, b) ==
    CASE sort_by = "roi" -> a.roi.num * b.roi.den > b.roi.num * a.roi.den
      [] sort_by = "popularity" -> a.popularity > b.popularity
      [] OTHER -> a.profit > b.profit

\* rs is in descending order of the key
Descending(rs) == \A j, k \in DOMAIN rs : j < k => ~KeyLarger(rs[k], rs[j])

\* rs holds only results of qs, none more often than qs does
DrawnFrom(rs, qs) == \A k \in DOMAIN rs : Times(rs, rs[k]) <= Times(qs, rs[k])

\* no result of qs left out of rs has a key strictly larger than one in rs
BestKept(rs, qs) ==
    \A j \in DOMAIN qs :
        Times(rs, qs[j]) < Times(qs, qs[j]) => \A k \in DOMAIN rs : ~KeyLarger(qs[j], rs[k])

\* rs is the ranking of qs under the limit lim
RankingOf(rs, qs, lim) ==
    /\ DrawnFrom(rs, qs)
    /\ Descending(rs)
    /\ BestKept(rs, qs)
    /\ IF lim = NoneV
       THEN Len(rs) = Len(qs)
       ELSE /\ Len(rs) <= lim.n
            /\ Len(rs) = Min({lim.n, Len(qs)})

\* C12: rank_recipes returns exactly the evaluations that pass min_profit and
\* min_popularity, in descending order of the selected key (profit for an unknown
\* key), all of them when limit is None and the first `limit` of them otherwise: never
\* more than `limit` results, and none left out whose key is strictly larger than a
\* returned one's.
C12_RankedFilteredSortedLimited ==
    pc = "ranked" => RankingOf(ranked, Qualifying(recipes), limit)

\* the same for the limits that are None or not negative
C12_NonNegativeLimit ==
    pc = "ranked" /\ (limit = NoneV \/ limit.n >= 0)
        => RankingOf(ranked, Qualifying(recipes), limit)


-----------------------------------------------------------------------------
(* Properties of the recipe client *)

\* the endpoints the client was given, the primary one first
Endpoints == <<api_url>> \o fallback_urls

\* the positions in Endpoints of the endpoints that answer
Answering == {j \in DOMAIN Endpoints : answers[Endpoints[j]] = "ok"}

\* the first of them
FirstAnswering == CHOOSE j \in Answering : \A k \in Answering : j <= k

\* the client's call is over, and the process too if the command line made it
FetchOver ==
    \/ caller = "library" /\ pc \in {"fetched", "raised"}
    \/ pc = "exited"

\* C13: a client given a primary endpoint and fallbacks requests them in order, the
\* primary first, stops at the first that answers and returns its payload; only
\* when none answers is a fetch or contact failure raised, which fetch-recipes
\* reports and turns into exit code 1; its exit code is 0 when an endpoint answered.
C13_FirstAnsweringEndpoint ==
    FetchOver =>
        IF Answering /= {}
        THEN /\ exc = ""
             /\ used = Endpoints[FirstAnswering]
             /\ contacted = SubSeq(Endpoints, 1, FirstAnswering)
             /\ caller = "cli" => exit_code = 0
        ELSE /\ exc = "RuntimeError"
             /\ used = NoUrl
             /\ contacted = Endpoints
             /\ caller = "cli" => exit_code = 1 /\ stderr = FetchError

\* the same of the client constructed without the keyword fallback_urls
C13_PrimaryOnly ==
    ~with_fallbacks => C13_FirstAnsweringEndpoint


-----------------------------------------------------------------------------
(* Properties of the identifier extraction *)

\* the identifier keys of o whose value is a string with something left when trimmed
Identifying(o) ==
    {j \in DOMAIN OutputIdKeys :
        Get(o, OutputIdKeys[j]).t = "str" /\ Strip(Get(o, OutputIdKeys[j]).s) /= <<>>}

\* the trimmed value under the first of them, no identifier without one
FirstIdentifier(o) ==
    IF Identifying(o) = {}
    THEN <<>>
    ELSE Strip(Get(o, OutputIdKeys[Min(Identifying(o))]).s)

\* the mappings among the values vs that name an identifier and an amount > 0
Naming(h, vs, amounts) ==
    {j \in DOMAIN vs :
        /\ IsMapping(h, vs[j])
        /\ FirstIdentifier(h[vs[j].n]) /= <<>>
        /\ _coerce_int(OrChain(h, Gets(h[vs[j].n], amounts)), 0).n > 0}

\* the output is the identifier of the mapping under "output"
OutputIdentified ==
    /\ cur.stage \in {"emitted", "no_ingredients", "no_output"}
    /\ IsMapping(heap, Get(CurEntry, "output"))
    /\ FirstIdentifier(heap[Get(CurEntry, "output").n]) /= <<>>
    => cur.product_id = FirstIdentifier(heap[Get(CurEntry, "output").n])

\* every ingredient mapping listed under "ingredients" is among the ingredients
IngredientsIdentified ==
    Extracting /\ IsMapping(heap, Get(CurEntry, "ingredients")) = FALSE
               /\ IsSequence(heap, Get(CurEntry, "ingredients"))
               /\ Get(CurEntry, "ingredients").t = "ref"
    => \A j \in Naming(heap, Elements(heap, Get(CurEntry, "ingredients")),
                       IngredientAmountKeys) :
            AmountOf(cur.ingredients,
                     FirstIdentifier(heap[Elements(heap, Get(CurEntry, "ingredients"))[j].n]))
                > 0

\* every descriptor of a key symbol that the pattern holds is among the ingredients
DescriptorsIdentified ==
    Extracting /\ Shaped(heap, CurEntry)
    => \A j \in Naming(heap, Elements(heap, Get(CurEntry, "key")), KeyAmountKeys) :
            Occurrences(Elements(heap, Get(CurEntry, "pattern")),
                        heap[Get(CurEntry, "key").n].items[j].k) > 0
            => AmountOf(cur.ingredients,
                        FirstIdentifier(heap[Elements(heap, Get(CurEntry, "key"))[j].n]))
                    > 0

\* C14: the identifier of an output candidate, an ingredient mapping or a key
\* descriptor is the trimmed value under the first of product_id, item_id, itemId,
\* id, item, name that holds a non-blank string; a missing, wrong-typed or blank
\* value under an earlier key does not keep a later key from giving the identifier.
C14_FirstUsableIdentifierKey ==
    /\ OutputIdentified
    /\ IngredientsIdentified
    /\ DescriptorsIdentified


-----------------------------------------------------------------------------
(* Properties of the steps of the container scan *)

\* the pair that the mapping x is emitted as
PairOf(h, x) == Pair(AsIngredient(h, h[x]).product_id, AsIngredient(h, h[x]).amount)

\* the containers entered so far that resolve to a valid pair
Emitting == {x \in seen : Resolves(heap, x)}

\* the values of x that are containers
ContainersIn(h, x) ==
    {h[x].items[m].v.n : m \in {m \in DOMAIN h[x].items : h[x].items[m].v.t = "ref"}}

\* the containers to be entered from x: x, and from each mapping that does not resolve
\* and each list entered, everything its values hold
RECURSIVE Entering(_, _)
EnteringFrom(h, S, T) == IF T = S THEN S ELSE Entering(h, T)
Entering(h, S) ==
    EnteringFrom(h, S, S \cup UNION {ContainersIn(h, x) : x \in {y \in S : ~Resolves(h, y)}})

\* C15: in the scan, a mapping that resolves to a valid pair is emitted as one
\* ingredient and none of its values is visited; a mapping that does not resolve emits
\* nothing itself and every value of it is visited, as is every element of a list;
\* strings and scalars emit nothing.
C15_EmitOrDescend ==
    /\ \A j \in DOMAIN stack : ~Resolves(heap, stack[j].obj)
    /\ Len(yielded) = Cardinality(Emitting)
    /\ \A x \in Emitting : \E j \in DOMAIN yielded : yielded[j] = PairOf(heap, x)
    /\ \A j \in DOMAIN stack : \A m \in 1..(stack[j].at - 1) :
            m <= Len(heap[stack[j].obj].items) /\ heap[stack[j].obj].items[m].v.t = "ref"
                => heap[stack[j].obj].items[m].v.n \in seen
    /\ pc = "scanned" =>
            seen = IF data.t = "ref" THEN Entering(heap, {data.n}) ELSE {}

\* C15 witness: the scan has ended; the root resolved and was emitted, and the
\* ingredient mapping it holds was not visited
C15_Witness ==
    /\ pc = "scanned"
    /\ data.t = "ref"
    /\ Resolves(heap, data.n)
    /\ yielded = <<PairOf(heap, data.n)>>
    /\ \E x \in ContainersIn(heap, data.n) : x \notin seen /\ Resolves(heap, x)

\* the scan has ended, having visited a list and a mapping that does not resolve
C15_DescentWitness ==
    /\ pc = "scanned"
    /\ \E x \in seen : heap[x].kind = "list"
    /\ \E x \in seen : heap[x].kind = "dict" /\ ~Resolves(heap, x)


\* the step opens a frame on a container, or yields the pair of one
Enters == Len(stack') > Len(stack) \/ yielded' /= yielded

\* C17: within one extraction call a container instance is entered at most once:
\* an identity once in the visited set stays in it, a container is entered (a
\* pair yielded for it, or its values iterated) only in the step that adds it to
\* the set, and a step that reaches an instance already in the set yields nothing
\* and raises nothing.
C17_EnteredAtMostOnce ==
    [][/\ seen \subseteq seen'
       /\ Enters => Cardinality(seen' \ seen) = 1
       /\ Len(stack') > Len(stack) => stack'[Len(stack')].obj \in seen' \ seen
       /\ Len(yielded') <= Len(yielded) + 1
       /\ yielded' /= yielded =>
            \E x \in seen' \ seen : yielded' = Append(yielded, PairOf(heap, x))
       /\ exc' = ""]_vars

\* C17 witness: the scan of a list that holds the same ingredient mapping twice has
\* ended, and the mapping was yielded once
C17_Witness ==
    /\ pc = "scanned"
    /\ data.t = "ref"
    /\ heap[data.n].kind = "list"
    /\ \E x \in seen :
        /\ Resolves(heap, x)
        /\ Cardinality({m \in DOMAIN heap[data.n].items : heap[data.n].items[m].v = Ref(x)}) = 2
    /\ Len(yielded) = 1


-----------------------------------------------------------------------------
(* The overlay against the scan *)

\* what the key entry (symbol, descriptor) adds to product_id if the descriptor is
\* resolved as the container scan resolves a mapping
ScanWorth(h, item, rows, product_id) ==
    IF IsMapping(h, item.v)
    THEN Worth(h, item.v.n, product_id) * Occurrences(rows, item.k)
    ELSE 0

ScanOverlayTotal(h, key_items, rows, product_id) ==
    SumSeq([j \in DOMAIN key_items |-> ScanWorth(h, key_items[j], rows, product_id)])

\* C16: the overlay takes an identifier and an amount from a key descriptor exactly
\* when the container scan would emit that mapping as an ingredient, and the same
\* ones: what the overlay adds for each symbol is the scan's pair for its descriptor,
\* times the cells that hold the symbol.
C16_OverlayResolvesAsScan ==
    Extracting /\ Shaped(heap, CurEntry) =>
        \A p \in IdsOf(cur.ingredients) \cup IngredientIds(heap) :
            AmountOf(cur.ingredients, p)
                = AmountOf(cur.scanned, p)
                  + ScanOverlayTotal(heap, heap[Get(CurEntry, "key").n].items,
                                     Elements(heap, Get(CurEntry, "pattern")), p)


-----------------------------------------------------------------------------
(* Properties of loading the canonical schema *)

\* the mapping o holds something under key: the key is there, not null, not empty
Carries(o, key) == HasKey(o, key) /\ Get(o, key) \notin {NoneV, StrV(<<>>)}

\* the ingredients of the entry o that have both a product_id and an amount
UsableIngredients(h, o) ==
    IF ~HasKey(o, "ingredients")
    THEN {}
    ELSE {j \in DOMAIN h[Get(o, "ingredients").n].items :
            /\ Carries(h[h[Get(o, "ingredients").n].items[j].v.n], "product_id")
            /\ HasKey(h[h[Get(o, "ingredients").n].items[j].v.n], "amount")
            /\ Get(h[h[Get(o, "ingredients").n].items[j].v.n], "amount") /= NoneV}

\* the entry is to be loaded
Loadable(h, o) == Carries(o, "product_id") /\ UsableIngredients(h, o) /= {}

\* the entries of the file
FileEntries(h) == [j \in DOMAIN h[2].items |-> h[h[2].items[j].v.n]]

\* the loadable ones among es, in order
RECURSIVE LoadableOf(_, _)
LoadableOf(h, es) ==
    IF es = <<>>
    THEN <<>>
    ELSE IF Loadable(h, Head(es))
    THEN <<Head(es)>> \o LoadableOf(h, Tail(es))
    ELSE LoadableOf(h, Tail(es))

\* the recipes rs are those of the entries es, one each
LoadedFrom(h, rs, es) ==
    /\ Len(rs) = Len(es)
    /\ \A j \in DOMAIN rs :
        /\ j \in DOMAIN es =>
            /\ rs[j].product_id = PyStr(h, Get(es[j], "product_id"))
            /\ Len(rs[j].ingredients) = Cardinality(UsableIngredients(h, es[j]))
        /\ \E k \in DOMAIN FileEntries(h) :
            /\ Carries(FileEntries(h)[k], "product_id")
            /\ rs[j].product_id = PyStr(h, Get(FileEntries(h)[k], "product_id"))

\* C18: a load that returns holds one recipe for each entry of the file that has a
\* non-empty product_id and an ingredient with both product_id and amount, and no
\* other: entries without product_id or without usable ingredient are skipped,
\* ingredients lacking product_id or amount are left out, and every recipe's
\* product_id is one the file holds.
C18_LoadsOnlyIdentifiedEntries ==
    pc = "reloaded" /\ Len(canon) >= 2 =>
        LoadedFrom(canon, reloaded, LoadableOf(canon, FileEntries(canon)))

====
